---- MODULE Spec2Model ----
(***************************************************************************)
(* Model of the Hebrew normalisation and matching engine                   *)
(* (hebrew_normalizer.py).                                                 *)
(*                                                                         *)
(* A text is a sequence of Unicode code points (a Python str iterates by   *)
(* code point).  Python's None is the value None below.  A similarity      *)
(* score is an exact rational in lowest terms, [num, den]; the code        *)
(* computes it in binary floating point, whose rounding (0.75 * 0.7 is     *)
(* 0.5249999999999999) is not modelled.                                    *)
(*                                                                         *)
(* The state machine is a caller of the library: it holds the arguments    *)
(* text1, text2 and fuzzy, and each action is one call of a function of    *)
(* the module on them, storing what the call returns.                      *)
(***************************************************************************)
EXTENDS Integers, Sequences, FiniteSets, TLC

VARIABLES text1, text2, fuzzy, pc, norm1, norm2, renorm1, renorm2,
          norm1_no_ml, norm2_no_ml,
          score, scoreRev, dist, distRev,
          text3, distTo3, distFrom3,
          offset_file, english_offset_map, kjv_offset_map, bhsa_node,
          english_offset, kjv_offset,
          strongs_file, bhsa_files, tf_installed,
          use_bhsa, strongs_data, bhsa_lexemes, bhsa_index, mapping, stats,
          strongs_to_bhsa_json, ambiguous_mappings_json, mapping_stats_txt,
          bhsa_to_strongs, all_bhsa,
          bhsa_to_strongs_complete_json, bhsa_to_strongs_summary_json,
          exit_status, runs, console

(* The caller's third string and the two distances through it.             *)
distanceVars == <<text3, distTo3, distFrom3>>

(* The offset file bhsa_ohb_offsets.json, the offset_map of an             *)
(* EnglishTranslation and of a KJV_Align object, the node looked up and    *)
(* what _get_offset returned for it on either object.                      *)
offsetVars == <<offset_file, english_offset_map, kjv_offset_map, bhsa_node,
                english_offset, kjv_offset>>

(* What the pipeline reads: the Strong's dictionary file, the corpus files *)
(* (lex_utf8.tf, voc_lex_utf8.tf, language.tf) and whether `import tf`     *)
(* succeeds.                                                               *)
sourceVars == <<strongs_file, bhsa_files, tf_installed>>

(* The fields of the MappingBuilder.                                       *)
builderVars == <<use_bhsa, strongs_data, bhsa_lexemes, bhsa_index, mapping, stats>>

(* The files the programs write, the two dicts create_complete_bhsa_to_    *)
(* strongs builds, and per program the exit status of its last run, the    *)
(* number of its runs and what its last run printed.                       *)
outputVars == <<strongs_to_bhsa_json, ambiguous_mappings_json, mapping_stats_txt,
                bhsa_to_strongs, all_bhsa,
                bhsa_to_strongs_complete_json, bhsa_to_strongs_summary_json,
                exit_status, runs, console>>

pipelineVars == <<sourceVars, builderVars, outputVars>>

(* The state outside the calls on text1 and text2.                         *)
restVars == <<distanceVars, offsetVars, pipelineVars>>

vars == <<text1, text2, fuzzy, pc, norm1, norm2, renorm1, renorm2,
          norm1_no_ml, norm2_no_ml,
          score, scoreRev, dist, distRev, restVars>>

-----------------------------------------------------------------------------
(* Code points that occur in the model's inputs.                           *)

SPACE       == \H0020
DIGIT_ZERO  == \H0030
DIGIT_ONE   == \H0031
DIGIT_THREE == \H0033
LATIN_T     == \H0074
SHEVA       == \H05B0
HIRIQ       == \H05B4
TSERE       == \H05B5
SEGOL       == \H05B6
PATAH       == \H05B7
QAMATS      == \H05B8
HOLAM       == \H05B9
DAGESH      == \H05BC
MAQAF       == \H05BE
PASEQ       == \H05C0
SHIN_DOT    == \H05C1
ALEF        == \H05D0
BET         == \H05D1
GIMEL       == \H05D2
DALET       == \H05D3
HE          == \H05D4
VAV         == \H05D5
ZAYIN       == \H05D6
HET         == \H05D7
YOD         == \H05D9
FINAL_KAF   == \H05DA
KAF         == \H05DB
LAMED       == \H05DC
FINAL_MEM   == \H05DD
MEM         == \H05DE
FINAL_NUN   == \H05DF
NUN         == \H05E0
AYIN        == \H05E2
FINAL_PE    == \H05E3
PE          == \H05E4
FINAL_TSADI == \H05E5
TSADI       == \H05E6
QOF         == \H05E7
RESH        == \H05E8
SHIN        == \H05E9
TAV         == \H05EA

(* Python's None: a value that is no string of code points.                *)
None == << -1 >>

-----------------------------------------------------------------------------
(* Module constants.                                                       *)

(* HEBREW_POINTS_EXTENDED: range(0x05B0, 0x05BD), range(0x05BF, 0x05C3),   *)
(* range(0x05C4, 0x05C6), [0x05C7]; a Python range excludes its end.       *)
HEBREW_POINTS_EXTENDED ==
    << \H05B0 .. \H05BC, \H05BF .. \H05C2, \H05C4 .. \H05C5, {\H05C7} >>

(* FINAL_FORMS, in the dictionary's insertion order: <<final, regular>>.   *)
FINAL_FORMS ==
    << <<FINAL_KAF, KAF>>, <<FINAL_MEM, MEM>>, <<FINAL_NUN, NUN>>,
       <<FINAL_PE, PE>>, <<FINAL_TSADI, TSADI>> >>

(* unicodedata.category(char) is 'Mn', for the code points up to U+05FF.   *)
IsNonspacingMark(c) ==
    \/ c \in \H0300 .. \H036F
    \/ c \in \H0483 .. \H0487
    \/ c \in \H0591 .. \H05BD
    \/ c = \H05BF
    \/ c \in \H05C1 .. \H05C2
    \/ c \in \H05C4 .. \H05C5
    \/ c = \H05C7

-----------------------------------------------------------------------------
(* MANUAL_CORRECTIONS, in the dictionary's insertion order:                *)
(* <<corpus form, Strong's number>>.                                       *)
MANUAL_CORRECTIONS ==
    <<
       << <<BET, SHEVA, DAGESH>>, "H9003" >>,
       << <<LAMED, SHEVA>>, "H9005" >>,
       << <<KAF, SHEVA, DAGESH>>, "H9004" >>,
       << <<MEM, HIRIQ>>, "H4480" >>,
       << <<MEM, HIRIQ, FINAL_NUN>>, "H4480" >>,
       << <<HE, PATAH>>, "H9009" >>,
       << <<HE, QAMATS>>, "H9009" >>,
       << <<VAV, SHEVA>>, "H9002" >>,
       << <<VAV, PATAH>>, "H9002" >>,
       << <<VAV, QAMATS>>, "H9002" >>,
       << <<ALEF, TSERE, TAV>>, "H853" >>,
       << <<ALEF, SEGOL, TAV>>, "H853" >>,
       << <<LAMED, PATAH, YOD, SHEVA, LAMED, QAMATS, HE>>, "H3915" >>,
       << <<YOD, VAV, HOLAM, FINAL_MEM>>, "H3117" >>,
       << <<SHIN, QAMATS, SHIN_DOT, NUN, QAMATS, HE>>, "H8141" >>,
       << <<AYIN, HIRIQ, YOD, RESH>>, "H5892" >>,
       << <<BET, PATAH, DAGESH, YOD, HIRIQ, TAV>>, "H1004" >>,
       << <<ALEF, HIRIQ, YOD, SHIN, SHIN_DOT>>, "H376" >>,
       << <<ALEF, HIRIQ, SHIN, QAMATS, DAGESH, SHIN_DOT, HE>>, "H802" >>,
       << <<BET, TSERE, DAGESH, FINAL_NUN>>, "H1121" >>,
       << <<BET, PATAH, DAGESH, TAV>>, "H1323" >>,
       << <<MEM, SEGOL, LAMED, SEGOL, FINAL_KAF, SHEVA>>, "H4428" >>,
       << <<AYIN, PATAH, FINAL_MEM>>, "H5971" >>,
       << <<GIMEL, DAGESH, VAV, HOLAM, YOD>>, "H1471" >>,
       << <<ALEF, SEGOL, RESH, SEGOL, FINAL_TSADI>>, "H776" >>,
       << <<SHIN, QAMATS, SHIN_DOT, MEM, PATAH, YOD, HIRIQ, FINAL_MEM>>, "H8064" >>,
       << <<MEM, PATAH, YOD, HIRIQ, FINAL_MEM>>, "H4325" >>,
       << <<YOD, QAMATS, DALET>>, "H3027" >>,
       << <<AYIN, PATAH, YOD, HIRIQ, FINAL_NUN>>, "H5869" >>,
       << <<LAMED, TSERE, BET>>, "H3820" >>,
       << <<NUN, SEGOL, PE, SEGOL, SHIN, SHIN_DOT>>, "H5315" >>,
       << <<RESH, VAV, DAGESH, HET, PATAH>>, "H7307" >>,
       << <<DALET, QAMATS, DAGESH, BET, QAMATS, RESH>>, "H1697" >>,
       << <<DALET, SEGOL, DAGESH, RESH, SEGOL, FINAL_KAF, SHEVA>>, "H1870" >>,
       << <<AYIN, TSERE, TAV>>, "H6256" >>,
       << <<MEM, QAMATS, QOF, VAV, HOLAM, FINAL_MEM>>, "H4725" >>,
       << <<SHIN, TSERE, SHIN_DOT, FINAL_MEM>>, "H8034" >>,
       << <<QOF, VAV, HOLAM, LAMED>>, "H6963" >>,
       << <<PE, SEGOL, DAGESH, HE>>, "H6310" >>,
       << <<ALEF, HOLAM, ZAYIN, SEGOL, FINAL_NUN>>, "H241" >>,
       << <<RESH, HOLAM, ALEF, SHIN, SHIN_DOT>>, "H7218" >>,
       << <<RESH, SEGOL, GIMEL, SEGOL, LAMED>>, "H7272" >>
    >>

-----------------------------------------------------------------------------
(* normalize_hebrew                                                        *)

(* The loop's three `continue` conditions.                                 *)
SkipChar(c) ==
    \/ IsNonspacingMark(c)
    \/ \E k \in 1 .. Len(HEBREW_POINTS_EXTENDED) : c \in HEBREW_POINTS_EXTENDED[k]
    \/ c = \H05C7

(* The first loop: the text without the skipped characters.                *)
StripMarks(text) == SelectSeq(text, LAMBDA c : ~SkipChar(c))

(* str.replace(old, new) for one-character old and new: every occurrence.  *)
Replace(s, old, new) == [i \in 1 .. Len(s) |-> IF s[i] = old THEN new ELSE s[i]]

(* for final, regular in FINAL_FORMS.items(): normalized = replace(...)    *)
RECURSIVE NormalizeFinalForms(_, _)
NormalizeFinalForms(s, k) ==
    IF k > Len(FINAL_FORMS) THEN s
    ELSE NormalizeFinalForms(Replace(s, FINAL_FORMS[k][1], FINAL_FORMS[k][2]), k + 1)

(* The last filter: keep the characters with 0x05D0 <= ord(char) <= 0x05EA.*)
KeepHebrewLetters(s) == SelectSeq(s, LAMBDA c : \H05D0 <= c /\ c <= \H05EA)

(* str.replace(old, new, 1): the first occurrence only.                    *)
ReplaceFirst(s, old, new) ==
    [i \in 1 .. Len(s) |->
        IF s[i] = old /\ (\A h \in 1 .. i - 1 : s[h] # old) THEN new ELSE s[i]]

RECURSIVE NormalizeFirstFinalForms(_, _)
NormalizeFirstFinalForms(s, k) ==
    IF k > Len(FINAL_FORMS) THEN s
    ELSE NormalizeFirstFinalForms(
             ReplaceFirst(s, FINAL_FORMS[k][1], FINAL_FORMS[k][2]), k + 1)

(* Mutant: replace(final, regular, 1) in place of replace(final, regular). *)
normalize_hebrew_replace_first(text) ==
    IF text = None \/ text = <<>> THEN <<>>
    ELSE KeepHebrewLetters(NormalizeFirstFinalForms(StripMarks(text), 1))

(* Mutant: the last filter (line 92) left out.                             *)
normalize_hebrew_no_letter_filter(text) ==
    IF text = None \/ text = <<>> THEN <<>>
    ELSE NormalizeFinalForms(StripMarks(text), 1)

(* Mutant: a final form is canonicalized in word-final position only.      *)
normalize_hebrew_word_final_only(text) ==
    IF text = None \/ text = <<>> THEN <<>>
    ELSE LET letters == KeepHebrewLetters(StripMarks(text))
         IN  [i \in 1 .. Len(letters) |->
                IF i = Len(letters)
                THEN NormalizeFinalForms(<<letters[i]>>, 1)[1]
                ELSE letters[i]]

normalize_hebrew(text) ==
    IF text = None \/ text = <<>> THEN <<>>
    ELSE KeepHebrewLetters(NormalizeFinalForms(StripMarks(text), 1))

-----------------------------------------------------------------------------
(* remove_matres_lectionis                                                 *)

(* re.sub of a two-character pattern cc by the single character c: the     *)
(* non-overlapping matches, leftmost first, each replaced by one c.        *)
RECURSIVE SubDoubled(_, _)
SubDoubled(s, c) ==
    IF Len(s) < 2 THEN s
    ELSE IF s[1] = c /\ s[2] = c THEN <<c>> \o SubDoubled(SubSeq(s, 3, Len(s)), c)
    ELSE <<s[1]>> \o SubDoubled(Tail(s), c)

(* Mutant: the doubled yod is kept.                                        *)
remove_matres_lectionis_vav_only(text) == SubDoubled(text, VAV)

remove_matres_lectionis(text) == SubDoubled(SubDoubled(text, VAV), YOD)

-----------------------------------------------------------------------------
(* levenshtein_distance                                                    *)

Min3(a, b, c) == IF a <= b /\ a <= c THEN a ELSE IF b <= c THEN b ELSE c

(* Mutant: a substitution costs 2.                                         *)
RECURSIVE InnerLoop_substitution_costs_two(_, _, _, _, _)
InnerLoop_substitution_costs_two(previous_row, current_row, c1, s2, j) ==
    IF j > Len(s2) THEN current_row
    ELSE LET insertions    == previous_row[j + 1] + 1
             deletions     == current_row[j] + 1
             substitutions == previous_row[j] + (IF c1 # s2[j] THEN 2 ELSE 0)
         IN  InnerLoop_substitution_costs_two(previous_row,
                 Append(current_row, Min3(insertions, deletions, substitutions)),
                 c1, s2, j + 1)

(* Mutant: min(insertions, substitutions), the deletions left out.         *)
RECURSIVE InnerLoop_no_deletions(_, _, _, _, _)
InnerLoop_no_deletions(previous_row, current_row, c1, s2, j) ==
    IF j > Len(s2) THEN current_row
    ELSE LET insertions    == previous_row[j + 1] + 1
             substitutions == previous_row[j] + (IF c1 # s2[j] THEN 1 ELSE 0)
         IN  InnerLoop_no_deletions(previous_row,
                 Append(current_row, Min3(insertions, insertions, substitutions)),
                 c1, s2, j + 1)

(* The inner loop over s2: current_row after the columns j .. len(s2).     *)
(* Row r of the code is the sequence r here, r[j + 1] being the code's     *)
(* r[j].                                                                   *)
RECURSIVE InnerLoop(_, _, _, _, _)
InnerLoop(previous_row, current_row, c1, s2, j) ==
    IF j > Len(s2) THEN current_row
    ELSE LET insertions    == previous_row[j + 1] + 1
             deletions     == current_row[j] + 1
             substitutions == previous_row[j] + (IF c1 # s2[j] THEN 1 ELSE 0)
         IN  InnerLoop(previous_row,
                       Append(current_row, Min3(insertions, deletions, substitutions)),
                       c1, s2, j + 1)

(* Mutant: current_row starts at [i], not at [i + 1].                      *)
RECURSIVE OuterLoop_row_starts_at_i(_, _, _, _)
OuterLoop_row_starts_at_i(previous_row, s1, s2, i) ==
    IF i > Len(s1) THEN previous_row
    ELSE LET current_row == InnerLoop(previous_row, <<i - 1>>, s1[i], s2, 1)
         IN  IF Len(current_row) = Len(s2) + 1
             THEN OuterLoop_row_starts_at_i(current_row, s1, s2, i + 1)
             ELSE current_row

(* The outer loop over s1: previous_row after the rows i .. len(s1).       *)
(* The test on current_row is always true: it makes TLC compute the row    *)
(* before the next iteration, as the code does, and not on demand.         *)
RECURSIVE OuterLoop(_, _, _, _)
OuterLoop(previous_row, s1, s2, i) ==
    IF i > Len(s1) THEN previous_row
    ELSE LET current_row == InnerLoop(previous_row, <<i>>, s1[i], s2, 1)
         IN  IF Len(current_row) = Len(s2) + 1
             THEN OuterLoop(current_row, s1, s2, i + 1)
             ELSE current_row

RECURSIVE levenshtein_distance(_, _)
levenshtein_distance(s1, s2) ==
    IF Len(s1) < Len(s2) THEN levenshtein_distance(s2, s1)
    ELSE IF Len(s2) = 0 THEN Len(s1)
    ELSE LET last_row == OuterLoop([j \in 1 .. Len(s2) + 1 |-> j - 1], s1, s2, 1)
         IN  last_row[Len(last_row)]

-----------------------------------------------------------------------------
(* Scores: exact rationals in lowest terms.                                *)

RECURSIVE GCD(_, _)
GCD(a, b) == IF b = 0 THEN a ELSE GCD(b, a % b)

Rat(n, d) ==
    IF n = 0 THEN [num |-> 0, den |-> 1]
    ELSE [num |-> n \div GCD(n, d), den |-> d \div GCD(n, d)]

RatLt(a, b)  == a.num * b.den < b.num * a.den
RatLe(a, b)  == a.num * b.den <= b.num * a.den
RatMul(a, b) == Rat(a.num * b.num, a.den * b.den)

-----------------------------------------------------------------------------
(* compare_hebrew, with the default weights                                *)

weight_exact       == Rat(10, 10)
weight_consonantal == Rat(9, 10)
(* Mutant: no penalty on the edit-distance similarity.                     *)
fuzzy_weight_no_penalty == Rat(1, 1)

fuzzy_weight       == Rat(7, 10)
spelling_variant   == Rat(85, 100)
no_match           == Rat(0, 10)

Max(a, b) == IF a >= b THEN a ELSE b

(* Mutant: max_len = len(norm1) in place of max(len(norm1), len(norm2)).   *)
FuzzyScore_first_length(n1, n2) ==
    LET max_len == Len(n1)
    IN  IF max_len = 0 THEN no_match
        ELSE LET distance   == levenshtein_distance(n1, n2)
                 similarity == Rat(max_len - distance, max_len)
             IN  IF /\ RatLt(similarity, Rat(9, 10))
                    /\ remove_matres_lectionis(n1) = remove_matres_lectionis(n2)
                    /\ Len(remove_matres_lectionis(n1)) > 0
                 THEN spelling_variant
                 ELSE RatMul(similarity, fuzzy_weight)

(* Mutant: the spelling-variant test made at every similarity.              *)
FuzzyScore_variant_at_any_similarity(n1, n2) ==
    LET max_len == Max(Len(n1), Len(n2))
    IN  IF max_len = 0 THEN no_match
        ELSE LET distance   == levenshtein_distance(n1, n2)
                 similarity == Rat(max_len - distance, max_len)
             IN  IF /\ remove_matres_lectionis(n1) = remove_matres_lectionis(n2)
                    /\ Len(remove_matres_lectionis(n1)) > 0
                 THEN spelling_variant
                 ELSE RatMul(similarity, fuzzy_weight)

(* Lines 202-221: the fuzzy tiers, on two normalized forms that differ.    *)
FuzzyScore(n1, n2) ==
    LET max_len == Max(Len(n1), Len(n2))
    IN  IF max_len = 0 THEN no_match
        ELSE LET distance   == levenshtein_distance(n1, n2)
                 similarity == Rat(max_len - distance, max_len)
             IN  IF /\ RatLt(similarity, Rat(9, 10))
                    /\ remove_matres_lectionis(n1) = remove_matres_lectionis(n2)
                    /\ Len(remove_matres_lectionis(n1)) > 0
                 THEN spelling_variant
                 ELSE RatMul(similarity, fuzzy_weight)

(* Mutant: the consonantal test made before the test of raw equality.      *)
compare_hebrew_consonantal_first(t1, t2, fz) ==
    IF t1 = None \/ t1 = <<>> \/ t2 = None \/ t2 = <<>> THEN no_match
    ELSE IF normalize_hebrew(t1) = normalize_hebrew(t2) THEN weight_consonantal
    ELSE IF t1 = t2 THEN weight_exact
    ELSE IF ~fz THEN no_match
    ELSE FuzzyScore(normalize_hebrew(t1), normalize_hebrew(t2))

(* Mutant: `if not fuzzy` tested before the consonantal match.             *)
compare_hebrew_fuzzy_test_first(t1, t2, fz) ==
    IF t1 = None \/ t1 = <<>> \/ t2 = None \/ t2 = <<>> THEN no_match
    ELSE IF t1 = t2 THEN weight_exact
    ELSE IF ~fz THEN no_match
    ELSE IF normalize_hebrew(t1) = normalize_hebrew(t2) THEN weight_consonantal
    ELSE FuzzyScore(normalize_hebrew(t1), normalize_hebrew(t2))

(* Mutant: the fuzzy flag is not read.                                      *)
compare_hebrew_ignores_fuzzy(t1, t2, fz) ==
    IF t1 = None \/ t1 = <<>> \/ t2 = None \/ t2 = <<>> THEN no_match
    ELSE IF t1 = t2 THEN weight_exact
    ELSE IF normalize_hebrew(t1) = normalize_hebrew(t2) THEN weight_consonantal
    ELSE FuzzyScore(normalize_hebrew(t1), normalize_hebrew(t2))

(* Mutant: the test for identical arguments comes before the test for      *)
(* empty ones.                                                             *)
compare_hebrew_identity_first(t1, t2, fz) ==
    IF t1 = t2 THEN weight_exact
    ELSE IF t1 = None \/ t1 = <<>> \/ t2 = None \/ t2 = <<>> THEN no_match
    ELSE IF normalize_hebrew(t1) = normalize_hebrew(t2) THEN weight_consonantal
    ELSE IF ~fz THEN no_match
    ELSE FuzzyScore(normalize_hebrew(t1), normalize_hebrew(t2))

(* text1, text2 and fuzzy are t1, t2 and fz; norm1 and norm2 are the two   *)
(* applications of normalize_hebrew.                                       *)
compare_hebrew(t1, t2, fz) ==
    IF t1 = None \/ t1 = <<>> \/ t2 = None \/ t2 = <<>> THEN no_match
    ELSE IF t1 = t2 THEN weight_exact
    ELSE IF normalize_hebrew(t1) = normalize_hebrew(t2) THEN weight_consonantal
    ELSE IF ~fz THEN no_match
    ELSE FuzzyScore(normalize_hebrew(t1), normalize_hebrew(t2))

-----------------------------------------------------------------------------
(* Bounds and input domains.                                               *)

MaxTextLen     == 3
MaxPairLen     == 3
MaxSkeletonLen == 4
MaxForeignLen  == 2

Strings(S, n) == UNION {[1 .. k -> S] : k \in 0 .. n}

(* One character of every class the normalizer tells apart: non-Hebrew,    *)
(* a nonspacing mark, a point that is no nonspacing mark, a character of   *)
(* the Hebrew block that is neither point nor letter, a base letter, final *)
(* forms (the first and the last of FINAL_FORMS) and a final form's base.  *)
TextChars == {LATIN_T, QAMATS, PASEQ, MAQAF, DALET, FINAL_KAF, KAF, FINAL_TSADI}

(* A mark, a vowel letter, a final form and its base letter.               *)
PairChars == {QAMATS, VAV, FINAL_KAF, KAF}

(* A consonant and a vowel letter.                                         *)
SkeletonChars == {DALET, VAV}

(* The two vowel letters remove_matres_lectionis collapses.                *)
MatresChars == {VAV, YOD}

(* Characters outside the Hebrew block: a space, a digit, a Latin letter.  *)
ForeignChars == {SPACE, DIGIT_ONE, LATIN_T}

(* The pairs the tests of compare_hebrew use.                              *)
TestPairs ==
    { << <<ALEF, QAMATS, HE, PATAH, BET>>, <<ALEF, HE, BET>> >>,
      << <<MEM, SEGOL, LAMED, SEGOL, FINAL_KAF, SHEVA>>, <<MEM, LAMED, FINAL_KAF>> >>,
      << <<DALET, QAMATS, DAGESH, VAV, HIRIQ, DALET>>,
         <<DALET, QAMATS, DAGESH, VAV, HIRIQ, YOD, DALET>> >>,
      << <<ALEF, HE, BET>>, <<SHIN, NUN, ALEF>> >>,
      << <<ALEF, HE, BET>>, <<ALEF, HE, DALET>> >>,
      << <<MEM, LAMED, FINAL_KAF>>, <<MEM, LAMED, KAF>> >>,
      << <<>>, <<ALEF, HE, BET>> >>,
      << <<ALEF, HE, BET>>, <<>> >> }

(* Calls with None for an argument.                                        *)
NonePairs ==
    { <<None, None>>, <<None, <<>> >>, << <<>>, None>>,
      <<None, <<DALET>> >>, << <<DALET>>, None>> }

(* Words of nine to eleven letters that share their first nine: on them a  *)
(* single edit leaves a similarity of 0.9 or more.                         *)
LongStem == <<MEM, LAMED, KAF, DALET, ALEF, HE, BET, SHIN, NUN>>

LongPairs ==
    {<<LongStem \o s, LongStem \o t>> :
        s \in Strings(SkeletonChars, 2), t \in Strings(SkeletonChars, 2)}

Inputs ==
    {<<t, t>> : t \in Strings(TextChars, MaxTextLen)}
        \cup (Strings(PairChars, MaxPairLen) \X Strings(PairChars, MaxPairLen))
        \cup (Strings(SkeletonChars, MaxSkeletonLen)
                 \X Strings(SkeletonChars, MaxSkeletonLen))
        \cup (Strings(ForeignChars, MaxForeignLen)
                 \X Strings(ForeignChars, MaxForeignLen))
        \cup (Strings(MatresChars, MaxSkeletonLen) \X {<<DALET, YOD, YOD, DALET>>})
        \cup TestPairs
        \cup LongPairs
        \cup NonePairs

-----------------------------------------------------------------------------
(* The offset lookup of the English translation layer.                     *)

(* A file of the file system: missing, or there with its parsed content.   *)
MissingFile == [exists |-> FALSE, parses |-> FALSE, data |-> <<>>]

(* A file whose text json.load (json.loads) rejects.                       *)
UnparsableFile == [exists |-> TRUE, parses |-> FALSE, data |-> <<>>]

File(content) == [exists |-> TRUE, parses |-> TRUE, data |-> content]

(* A Python dict with integer keys is a function on the set of its keys;   *)
(* the empty dict is the function on no key.                               *)
EmptyDict == <<>>

DictSet(d, k, v) == [x \in DOMAIN d \cup {k} |-> IF x = k THEN v ELSE d[x]]

Digits == \H0030 .. \H0039

(* int(k) returns for a string of decimal digits and raises ValueError     *)
(* for the other keys of the model.                                        *)
IntParses(k) == k # <<>> /\ \A i \in 1 .. Len(k) : k[i] \in Digits

RECURSIVE IntOf(_)
IntOf(k) ==
    IF k = <<>> THEN 0
    ELSE 10 * IntOf(SubSeq(k, 1, Len(k) - 1)) + (k[Len(k)] - DIGIT_ZERO)

(* {int(k): v for k, v in offset_data.items()}: a later item replaces an   *)
(* earlier one with the same integer key.                                  *)
RECURSIVE IntKeyed(_, _, _)
IntKeyed(offset_data, i, d) ==
    IF i > Len(offset_data) THEN d
    ELSE IntKeyed(offset_data, i + 1,
                  DictSet(d, IntOf(offset_data[i][1]), offset_data[i][2]))

OffsetDataParses(offset_data) ==
    \A i \in 1 .. Len(offset_data) : IntParses(offset_data[i][1])

(* open, json.load and the comprehension all return.                       *)
OffsetFileLoads(f) == f.exists /\ f.parses /\ OffsetDataParses(f.data)

(* sorted(self.offset_map.keys())                                          *)
RECURSIVE SortedKeys(_)
SortedKeys(S) ==
    IF S = {} THEN <<>>
    ELSE LET least == CHOOSE k \in S : \A x \in S : k <= x
         IN  <<least>> \o SortedKeys(S \ {least})

(* Mutant: the node is compared with > and not with >=.                    *)
RECURSIVE EnglishOffsetLoop_strictly_greater(_, _, _, _, _)
EnglishOffsetLoop_strictly_greater(offset_map, keys, i, node_id, offset) ==
    IF i > Len(keys) THEN offset
    ELSE IF node_id > keys[i]
         THEN EnglishOffsetLoop_strictly_greater(offset_map, keys, i + 1, node_id,
                                                 offset_map[keys[i]])
         ELSE offset

(* The loop of EnglishTranslation._get_offset from the i-th sorted key on. *)
RECURSIVE EnglishOffsetLoop(_, _, _, _, _)
EnglishOffsetLoop(offset_map, keys, i, node_id, offset) ==
    IF i > Len(keys) THEN offset
    ELSE IF node_id >= keys[i]
         THEN EnglishOffsetLoop(offset_map, keys, i + 1, node_id, offset_map[keys[i]])
         ELSE offset

EnglishTranslation_get_offset(offset_map, node_id) ==
    EnglishOffsetLoop(offset_map, SortedKeys(DOMAIN offset_map), 1, node_id, 0)

(* The loop of KJV_Align._get_offset from the i-th sorted key on.          *)
RECURSIVE KjvOffsetLoop(_, _, _, _, _)
KjvOffsetLoop(offset_map, keys, i, node_id, offset) ==
    IF i > Len(keys) THEN offset
    ELSE IF node_id >= keys[i]
         THEN KjvOffsetLoop(offset_map, keys, i + 1, node_id, offset_map[keys[i]])
         ELSE offset

KJV_Align_get_offset(offset_map, node_id) ==
    KjvOffsetLoop(offset_map, SortedKeys(DOMAIN offset_map), 1, node_id, 0)

OffsetIdle ==
    /\ offset_file = MissingFile
    /\ english_offset_map = EmptyDict
    /\ kjv_offset_map = EmptyDict
    /\ bhsa_node = 0
    /\ english_offset = 0
    /\ kjv_offset = 0

-----------------------------------------------------------------------------
(* The mapping pipeline: build_mapping.py, create_complete_bhsa_mapping.py *)
(* and apply_manual_corrections.py.  The gloss fields (kjv_def,            *)
(* kjv_glosses, gloss_list), which the programs copy and never test, are   *)
(* left out of the entries.                                                *)

(* A Python dict with string keys is the sequence of its items,            *)
(* <<key, value>>, in insertion order.                                     *)
HasKey(d, k) == \E i \in 1 .. Len(d) : d[i][1] = k

Lookup(d, k) == d[CHOOSE i \in 1 .. Len(d) : d[i][1] = k][2]

Store(d, k, v) ==
    IF HasKey(d, k)
    THEN [i \in 1 .. Len(d) |-> IF d[i][1] = k THEN <<k, v>> ELSE d[i]]
    ELSE Append(d, <<k, v>>)

Keys(d) == [i \in 1 .. Len(d) |-> d[i][1]]

Values(d) == [i \in 1 .. Len(d) |-> d[i][2]]

Min(a, b) == IF a <= b THEN a ELSE b

Abs(a) == IF a < 0 THEN -a ELSE a

(* An entry of the Strong's dictionary as json.loads returns it: a dict    *)
(* with the keys present, or a value that is no dict.                      *)
DictEntry(present, lemma, word) ==
    [is_dict |-> TRUE, keys |-> present,
     lemma |-> lemma, hebrew |-> <<>>, word |-> word, text |-> <<>>]

NonDictEntry ==
    [is_dict |-> FALSE, keys |-> {},
     lemma |-> <<>>, hebrew |-> <<>>, word |-> <<>>, text |-> <<>>]

(* entry.get(field, '')                                                    *)
EntryGet(entry, field) == IF field \in entry.keys THEN entry[field] ELSE <<>>

(* for alt_field in ['lemma', 'hebrew', 'word', 'text']                    *)
AltFields == <<"lemma", "hebrew", "word", "text">>

RECURSIVE FirstAltField(_, _)
FirstAltField(strongs_entry, k) ==
    IF k > Len(AltFields) THEN <<>>
    ELSE IF EntryGet(strongs_entry, AltFields[k]) # <<>>
         THEN EntryGet(strongs_entry, AltFields[k])
         ELSE FirstAltField(strongs_entry, k + 1)

extract_strongs_hebrew(strongs_entry) ==
    IF strongs_entry.keys = {} \/ ~strongs_entry.is_dict THEN <<>>
    ELSE LET hebrew_text == EntryGet(strongs_entry, "lemma")
         IN  normalize_hebrew(IF hebrew_text # <<>> THEN hebrew_text
                              ELSE FirstAltField(strongs_entry, 1))

(* round(score, 3), to the nearest thousandth.                             *)
Round3(r) == Rat((2000 * r.num + r.den) \div (2 * r.den), 1000)

(* The word nodes of the corpus are the nodes 1 to 426590.                 *)
WORD_NODES == 426590

(* The loop of load_bhsa_data over the word lines from line i on: row i    *)
(* holds line i of lex_utf8.tf, of voc_lex_utf8.tf ('' past its end) and   *)
(* of language.tf.                                                         *)
RECURSIVE LexemeMap(_, _, _)
LexemeMap(rows, i, lexeme_map) ==
    IF i > Min(Len(rows), WORD_NODES) THEN lexeme_map
    ELSE LET lex     == rows[i].lex
             voc_lex == rows[i].voc_lex
             key     == IF voc_lex # <<>> THEN voc_lex ELSE lex
         IN  IF (lex # <<>> \/ voc_lex # <<>>) /\ ~HasKey(lexeme_map, key)
             THEN LexemeMap(rows, i + 1,
                      Append(lexeme_map,
                             <<key, [node         |-> i,
                                     lex_utf8     |-> lex,
                                     voc_lex_utf8 |-> voc_lex,
                                     language     |-> rows[i].lang,
                                     normalized   |-> normalize_hebrew(key)]>>))
             ELSE LexemeMap(rows, i + 1, lexeme_map)

(* The loop that builds bhsa_index, from the i-th lexeme on.               *)
RECURSIVE BuildIndex(_, _, _)
BuildIndex(lexemes, i, index) ==
    IF i > Len(lexemes) THEN index
    ELSE LET norm   == lexemes[i].normalized
             bucket == IF HasKey(index, norm) THEN Lookup(index, norm) ELSE <<>>
         IN  BuildIndex(lexemes, i + 1, Store(index, norm, Append(bucket, lexemes[i])))

(* The lexemes of bhsa_list, each with its score against the Strong's form. *)
Scored(strongs_hebrew, bhsa_list) ==
    [i \in 1 .. Len(bhsa_list) |->
        [bhsa_lex |-> bhsa_list[i],
         score    |-> compare_hebrew(strongs_hebrew, bhsa_list[i].normalized, TRUE)]]

(* if score >= 0.7: matches.append({...}), the score rounded.              *)
Appended(scored) ==
    LET scoring == SelectSeq(scored, LAMBDA s : RatLe(Rat(7, 10), s.score))
    IN  [i \in 1 .. Len(scoring) |->
            [node     |-> scoring[i].bhsa_lex.node,
             score    |-> Round3(scoring[i].score),
             bhsa_lex |-> scoring[i].bhsa_lex.lex_utf8,
             bhsa_voc |-> scoring[i].bhsa_lex.voc_lex_utf8,
             language |-> scoring[i].bhsa_lex.language]]

(* The matches one loop over bhsa_list appends.                            *)
ScoredMatches(strongs_hebrew, bhsa_list) == Appended(Scored(strongs_hebrew, bhsa_list))

(* The scan of the whole index from its k-th item on.                      *)
RECURSIVE FallbackScan(_, _, _, _)
FallbackScan(strongs_hebrew, index, k, matches) ==
    IF k > Len(index) THEN matches
    ELSE IF Abs(Len(index[k][1]) - Len(strongs_hebrew)) <= 2
         THEN FallbackScan(strongs_hebrew, index, k + 1,
                           matches \o ScoredMatches(strongs_hebrew, index[k][2]))
         ELSE FallbackScan(strongs_hebrew, index, k + 1, matches)

(* matches.sort(key=score, reverse=True): a stable sort, so a match goes   *)
(* behind the matches of the same score that came before it.               *)
InsertByScore(sorted, m) ==
    LET ahead == SelectSeq(sorted, LAMBDA x : RatLe(m.score, x.score))
        after == SelectSeq(sorted, LAMBDA x : RatLt(x.score, m.score))
    IN  ahead \o <<m>> \o after

RECURSIVE SortByScore(_, _, _)
SortByScore(matches, i, sorted) ==
    IF i > Len(matches) THEN sorted
    ELSE SortByScore(matches, i + 1, InsertByScore(sorted, matches[i]))

(* self.bhsa_index.get(strongs_hebrew, [])                                 *)
IndexGet(index, strongs_hebrew) ==
    IF HasKey(index, strongs_hebrew) THEN Lookup(index, strongs_hebrew) ELSE <<>>

(* Mutant: the index is scanned after every lookup.                        *)
OrFallback_always_scans(strongs_hebrew, index, matches) ==
    matches \o FallbackScan(strongs_hebrew, index, 1, <<>>)

(* if not matches: the scan of the index replaces an empty exact lookup.   *)
OrFallback(strongs_hebrew, index, matches) ==
    IF matches # <<>> THEN matches ELSE FallbackScan(strongs_hebrew, index, 1, <<>>)

(* Mutant: every match is returned.                                        *)
Top10_untruncated(matches) == matches

(* matches[:10]                                                            *)
Top10(matches) == SubSeq(matches, 1, Min(10, Len(matches)))

(* find_bhsa_matches from the normalized Strong's form on.                 *)
MatchesOf(strongs_hebrew, index) ==
    IF strongs_hebrew = <<>> THEN <<>>
    ELSE Top10(SortByScore(
             OrFallback(strongs_hebrew, index,
                        ScoredMatches(strongs_hebrew, IndexGet(index, strongs_hebrew))),
             1, <<>>))

find_bhsa_matches(use, index, strongs_entry) ==
    IF ~use \/ index = <<>> THEN <<>>
    ELSE MatchesOf(extract_strongs_hebrew(strongs_entry), index)

(* self.stats of a new MappingBuilder.                                     *)
NewStats ==
    [total_strongs |-> 0, matched |-> 0, unmatched |-> 0, ambiguous |-> 0,
     high_confidence |-> 0, medium_confidence |-> 0, low_confidence |-> 0]

(* Mutant: best_score >= 0.95 and best_score > 0.85 for the two thresholds. *)
Confidence_strict_medium(bhsa_matches) ==
    IF bhsa_matches = <<>> THEN "none"
    ELSE IF RatLe(Rat(95, 100), bhsa_matches[1].score) THEN "high"
    ELSE IF RatLt(Rat(85, 100), bhsa_matches[1].score) THEN "medium"
    ELSE "low"

Confidence(bhsa_matches) ==
    IF bhsa_matches = <<>> THEN "none"
    ELSE IF RatLe(Rat(95, 100), bhsa_matches[1].score) THEN "high"
    ELSE IF RatLe(Rat(85, 100), bhsa_matches[1].score) THEN "medium"
    ELSE "low"

(* Mutant: an entry without matches is not counted.                        *)
CountedStats_unmatched_not_counted(st, bhsa_matches) ==
    LET confidence == Confidence(bhsa_matches)
        one(c)     == IF c THEN 1 ELSE 0
    IN  [st EXCEPT
            !.high_confidence   = @ + one(confidence = "high"),
            !.medium_confidence = @ + one(confidence = "medium"),
            !.low_confidence    = @ + one(confidence = "low"),
            !.ambiguous         = @ + one(Len(bhsa_matches) > 1),
            !.matched           = @ + one(bhsa_matches # <<>>)]

(* self.stats after process_strongs_entry found bhsa_matches.              *)
CountedStats(st, bhsa_matches) ==
    LET confidence == Confidence(bhsa_matches)
        one(c)     == IF c THEN 1 ELSE 0
    IN  [st EXCEPT
            !.high_confidence   = @ + one(confidence = "high"),
            !.medium_confidence = @ + one(confidence = "medium"),
            !.low_confidence    = @ + one(confidence = "low"),
            !.ambiguous         = @ + one(Len(bhsa_matches) > 1),
            !.matched           = @ + one(bhsa_matches # <<>>),
            !.unmatched         = @ + one(bhsa_matches = <<>>)]

(* mapping_entry, from the lemma and the matches found.                    *)
MappingEntry(strongs_num, strongs_lemma, bhsa_matches) ==
    [strongs_number     |-> strongs_num,
     strongs_lemma      |-> strongs_lemma,
     strongs_normalized |-> normalize_hebrew(strongs_lemma),
     bhsa_matches       |-> bhsa_matches,
     confidence         |-> Confidence(bhsa_matches),
     match_count        |-> Len(bhsa_matches)]

(* The mapping entry process_strongs_entry returns for a dict entry.       *)
process_strongs_entry(use, index, strongs_num, entry) ==
    MappingEntry(strongs_num, EntryGet(entry, "lemma"),
                 find_bhsa_matches(use, index, entry))

(* The value of a key a mapping entry does not have.  Below, b2s is the    *)
(* dict bhsa_to_strongs under construction.                                *)
NoKey == ""

(* The loop over entry['bhsa_matches'] from the j-th match on: a corpus    *)
(* form takes the first Strong's number that lists it.                     *)
RECURSIVE ReverseMatches(_, _, _, _)
ReverseMatches(strongs_num, entry, j, b2s) ==
    IF j > Len(entry.bhsa_matches) THEN b2s
    ELSE LET match    == entry.bhsa_matches[j]
             bhsa_voc == match.bhsa_voc
         IN  IF bhsa_voc # <<>> /\ ~HasKey(b2s, bhsa_voc)
             THEN ReverseMatches(strongs_num, entry, j + 1,
                      Append(b2s,
                             <<bhsa_voc, [strongs        |-> strongs_num,
                                          strongs_lemma  |-> entry.strongs_lemma,
                                          score          |-> match.score,
                                          method         |-> "exact_match",
                                          previous_match |-> NoKey]>>))
             ELSE ReverseMatches(strongs_num, entry, j + 1, b2s)

(* Step 1, from the i-th item of strongs_mapping on.                       *)
RECURSIVE ReverseMapping(_, _, _)
ReverseMapping(strongs_mapping, i, b2s) ==
    IF i > Len(strongs_mapping) THEN b2s
    ELSE ReverseMapping(strongs_mapping, i + 1,
             ReverseMatches(strongs_mapping[i][1], strongs_mapping[i][2], 1,
                            b2s))

(* Step 2, from word line i on: the unique vocalized lexemes.              *)
RECURSIVE AllBhsa(_, _, _)
AllBhsa(rows, i, all) ==
    IF i > Min(Len(rows), WORD_NODES) THEN all
    ELSE LET voc_lex == rows[i].voc_lex
         IN  IF voc_lex # <<>> /\ ~HasKey(all, voc_lex)
             THEN AllBhsa(rows, i + 1,
                      Append(all, <<voc_lex, [voc        |-> voc_lex,
                                              cons       |-> rows[i].lex,
                                              normalized |-> normalize_hebrew(voc_lex)]>>))
             ELSE AllBhsa(rows, i + 1, all)

(* best_match = None; best_score = 0                                       *)
NoBest ==
    [found |-> FALSE, score |-> Rat(0, 1),
     match |-> [strongs |-> NoKey, strongs_lemma |-> <<>>, score |-> Rat(0, 1),
                method |-> NoKey, previous_match |-> NoKey]]

(* Mutant of the test of step 3: an entry that scores as high as the best  *)
(* so far replaces it.                                                     *)
Improved_last_wins(best, strongs_num, entry, sc) ==
    IF RatLe(best.score, sc)
    THEN [found |-> TRUE, score |-> sc,
          match |-> [strongs        |-> strongs_num,
                     strongs_lemma  |-> entry.strongs_lemma,
                     score          |-> Round3(sc),
                     method         |-> IF RatLt(sc, Rat(9, 10))
                                        THEN "fuzzy_match" ELSE "consonantal_match",
                     previous_match |-> NoKey]]
    ELSE best

(* if score > best_score: the entry becomes the best match.  best.found is *)
(* best_match is not None, best.score is best_score.                       *)
Improved(best, strongs_num, entry, sc) ==
    IF RatLt(best.score, sc)
    THEN [found |-> TRUE, score |-> sc,
          match |-> [strongs        |-> strongs_num,
                     strongs_lemma  |-> entry.strongs_lemma,
                     score          |-> Round3(sc),
                     method         |-> IF RatLt(sc, Rat(9, 10))
                                        THEN "fuzzy_match" ELSE "consonantal_match",
                     previous_match |-> NoKey]]
    ELSE best

(* The inner loop of step 3 from the k-th Strong's entry on.               *)
RECURSIVE BestMatch(_, _, _, _)
BestMatch(normalized, strongs_mapping, k, best) ==
    IF k > Len(strongs_mapping) THEN best
    ELSE BestMatch(normalized, strongs_mapping, k + 1,
             Improved(best, strongs_mapping[k][1], strongs_mapping[k][2],
                      compare_hebrew(normalized,
                                     strongs_mapping[k][2].strongs_normalized, TRUE)))

(* if best_match: bhsa_to_strongs[bhsa_lex] = best_match                   *)
Assigned(b2s, bhsa_lex, best) ==
    IF best.found THEN Store(b2s, bhsa_lex, best.match) ELSE b2s

(* Step 3, from the i-th unmatched lexeme on.                              *)
RECURSIVE CoveragePass(_, _, _, _, _)
CoveragePass(unmatched, all, strongs_mapping, i, b2s) ==
    IF i > Len(unmatched) THEN b2s
    ELSE CoveragePass(unmatched, all, strongs_mapping, i + 1,
             Assigned(b2s, unmatched[i],
                      BestMatch(Lookup(all, unmatched[i]).normalized,
                                strongs_mapping, 1, NoBest)))

(* sum(1 for v in mapping.values() if v['method'] in methods)              *)
CountMethod(d, methods) == Len(SelectSeq(Values(d), LAMBDA v : v.method \in methods))

(* The confidence counts of both summaries.                                *)
ByConfidence(d) ==
    << <<"high", Len(SelectSeq(Values(d), LAMBDA v : RatLe(Rat(9, 10), v.score)))>>,
       <<"medium", Len(SelectSeq(Values(d), LAMBDA v : RatLe(Rat(7, 10), v.score)
                                                       /\ RatLt(v.score, Rat(9, 10))))>>,
       <<"low", Len(SelectSeq(Values(d), LAMBDA v : RatLt(v.score, Rat(7, 10))))>> >>

(* round(100 * matched / total, 2), for total > 0.                         *)
Coverage(matched, total) == Rat((20000 * matched + total) \div (2 * total), 100)

(* The summary create_complete_bhsa_to_strongs writes.                     *)
CompleteSummary(all, b2s) ==
    [total_bhsa_lexemes |-> Len(all),
     total_matched      |-> Len(b2s),
     coverage           |-> Coverage(Len(b2s), Len(all)),
     by_method          |->
         << <<"exact_match",
              CountMethod(b2s, {"exact_match"})>>,
            <<"consonantal_match",
              CountMethod(b2s, {"consonantal_match"})>>,
            <<"fuzzy_match",
              CountMethod(b2s, {"fuzzy_match"})>> >>,
     by_confidence      |-> ByConfidence(b2s)]

(* The loop of apply_manual_corrections from the k-th correction on:       *)
(* the mapping and corrections_made.                                       *)
RECURSIVE ApplyCorrections(_, _, _, _)
ApplyCorrections(corrected, strongs_mapping, k, corrections_made) ==
    IF k > Len(MANUAL_CORRECTIONS)
    THEN [mapping |-> corrected, corrections_made |-> corrections_made]
    ELSE LET bhsa_word      == MANUAL_CORRECTIONS[k][1]
             correct_strongs == MANUAL_CORRECTIONS[k][2]
         IN  IF HasKey(corrected, bhsa_word) /\ HasKey(strongs_mapping, correct_strongs)
             THEN ApplyCorrections(
                      Store(corrected, bhsa_word,
                            [strongs        |-> correct_strongs,
                             strongs_lemma  |->
                                 Lookup(strongs_mapping, correct_strongs).strongs_lemma,
                             score          |-> Rat(1, 1),
                             method         |-> "manual_correction",
                             previous_match |-> Lookup(corrected, bhsa_word).strongs]),
                      strongs_mapping, k + 1, corrections_made + 1)
             ELSE ApplyCorrections(corrected, strongs_mapping, k + 1, corrections_made)

(* The summary apply_manual_corrections writes.                            *)
CorrectedSummary(corrected, corrections_made) ==
    [total_bhsa_lexemes |-> Len(corrected),
     total_matched      |-> Len(corrected),
     coverage           |-> Rat(100, 1),
     by_method          |->
         << <<"exact_match",
              CountMethod(corrected, {"exact_match", "manual_correction"})
                  - corrections_made>>,
            <<"manual_correction", corrections_made>>,
            <<"consonantal_match",
              CountMethod(corrected, {"consonantal_match"})>>,
            <<"fuzzy_match",
              CountMethod(corrected, {"fuzzy_match"})>> >>,
     by_confidence      |-> ByConfidence(corrected)]

Programs == {"build_mapping", "create_complete", "apply_corrections"}

(* No program of the pipeline has run and no file is there.                *)
PipelineIdle ==
    /\ strongs_file = MissingFile
    /\ bhsa_files = MissingFile
    /\ tf_installed = FALSE
    /\ use_bhsa = FALSE
    /\ strongs_data = <<>>
    /\ bhsa_lexemes = <<>>
    /\ bhsa_index = <<>>
    /\ mapping = <<>>
    /\ stats = NewStats
    /\ strongs_to_bhsa_json = MissingFile
    /\ ambiguous_mappings_json = MissingFile
    /\ mapping_stats_txt = MissingFile
    /\ bhsa_to_strongs = <<>>
    /\ all_bhsa = <<>>
    /\ bhsa_to_strongs_complete_json = MissingFile
    /\ bhsa_to_strongs_summary_json = MissingFile
    /\ exit_status = [p \in Programs |-> 0]
    /\ runs = [p \in Programs |-> 0]
    /\ console = [p \in Programs |-> <<>>]

-----------------------------------------------------------------------------
(* The caller.                                                             *)

Init ==
    /\ \E p \in Inputs : text1 = p[1] /\ text2 = p[2]
    /\ fuzzy = TRUE
    /\ pc = "input"
    /\ norm1 = <<>>
    /\ norm2 = <<>>
    /\ renorm1 = <<>>
    /\ renorm2 = <<>>
    /\ norm1_no_ml = <<>>
    /\ norm2_no_ml = <<>>
    /\ score = no_match
    /\ scoreRev = no_match
    /\ dist = 0
    /\ distRev = 0
    /\ text3 = <<>>
    /\ distTo3 = 0
    /\ distFrom3 = 0
    /\ OffsetIdle
    /\ PipelineIdle

(* norm1 = normalize_hebrew(text1); norm2 = normalize_hebrew(text2)        *)
Normalize ==
    /\ pc = "input"
    /\ norm1' = normalize_hebrew(text1)
    /\ norm2' = normalize_hebrew(text2)
    /\ pc' = "normalized"
    /\ UNCHANGED <<text1, text2, fuzzy, renorm1, renorm2, norm1_no_ml, norm2_no_ml, score, scoreRev, dist, distRev>>
    /\ UNCHANGED restVars

(* renorm1 = normalize_hebrew(norm1); renorm2 = normalize_hebrew(norm2)    *)
Renormalize ==
    /\ pc = "normalized"
    /\ renorm1' = normalize_hebrew(norm1)
    /\ renorm2' = normalize_hebrew(norm2)
    /\ pc' = "renormalized"
    /\ UNCHANGED <<text1, text2, fuzzy, norm1, norm2, norm1_no_ml, norm2_no_ml,
                   score, scoreRev, dist, distRev>>
    /\ UNCHANGED restVars

(* norm1_no_ml = remove_matres_lectionis(norm1) and norm2_no_ml =          *)
(* remove_matres_lectionis(norm2), as lines 215-216 call it.               *)
RemoveMatres ==
    /\ pc = "normalized"
    /\ norm1_no_ml' = remove_matres_lectionis(norm1)
    /\ norm2_no_ml' = remove_matres_lectionis(norm2)
    /\ pc' = "collapsed"
    /\ UNCHANGED <<text1, text2, fuzzy, norm1, norm2, renorm1, renorm2,
                   score, scoreRev, dist, distRev>>
    /\ UNCHANGED restVars

(* score = compare_hebrew(text1, text2, fuzzy=f)                           *)
Compare ==
    /\ pc = "input"
    /\ \E f \in BOOLEAN :
          /\ fuzzy' = f
          /\ score' = compare_hebrew(text1, text2, f)
    /\ pc' = "compared"
    /\ UNCHANGED <<text1, text2, norm1, norm2, renorm1, renorm2, norm1_no_ml, norm2_no_ml, scoreRev, dist, distRev>>
    /\ UNCHANGED restVars

(* scoreRev = compare_hebrew(text2, text1, fuzzy)                          *)
CompareSwapped ==
    /\ pc = "compared"
    /\ scoreRev' = compare_hebrew(text2, text1, fuzzy)
    /\ pc' = "compared_both"
    /\ UNCHANGED <<text1, text2, fuzzy, norm1, norm2, renorm1, renorm2, norm1_no_ml, norm2_no_ml, score, dist, distRev>>
    /\ UNCHANGED restVars

(* score = compare_hebrew(norm1, norm2, fuzzy=f): the comparison of forms  *)
(* normalized beforehand, as test_spelling_variant_detection makes it.     *)
CompareNormalized ==
    /\ pc = "normalized"
    /\ \E f \in BOOLEAN :
          /\ fuzzy' = f
          /\ score' = compare_hebrew(norm1, norm2, f)
    /\ pc' = "compared_normalized"
    /\ UNCHANGED <<text1, text2, norm1, norm2, renorm1, renorm2, norm1_no_ml, norm2_no_ml, scoreRev, dist, distRev>>
    /\ UNCHANGED restVars

(* dist = levenshtein_distance(text1, text2); len(None) raises, so the     *)
(* call returns for strings only.                                          *)
Levenshtein ==
    /\ pc = "input"
    /\ text1 # None /\ text2 # None
    /\ dist' = levenshtein_distance(text1, text2)
    /\ pc' = "distance"
    /\ UNCHANGED <<text1, text2, fuzzy, norm1, norm2, renorm1, renorm2, norm1_no_ml, norm2_no_ml, score, scoreRev, distRev>>
    /\ UNCHANGED restVars

(* distRev = levenshtein_distance(text2, text1)                            *)
LevenshteinSwapped ==
    /\ pc = "distance"
    /\ distRev' = levenshtein_distance(text2, text1)
    /\ pc' = "distance_both"
    /\ UNCHANGED <<text1, text2, fuzzy, norm1, norm2, renorm1, renorm2, norm1_no_ml, norm2_no_ml, score, scoreRev, dist>>
    /\ UNCHANGED restVars

Next ==
    \/ Normalize
    \/ Renormalize
    \/ RemoveMatres
    \/ Compare
    \/ CompareSwapped
    \/ CompareNormalized
    \/ Levenshtein
    \/ LevenshteinSwapped

Spec == Init /\ [][Next]_vars

-----------------------------------------------------------------------------
(* The caller with three strings: the distance from text1 to text2 and the *)
(* two distances of the way through text3.                                 *)

MaxTripleLen == 3

DistanceChars == {DALET, VAV}

InitDistance ==
    /\ \E a, b, c \in Strings(DistanceChars, MaxTripleLen) :
          text1 = a /\ text2 = b /\ text3 = c
    /\ fuzzy = TRUE
    /\ pc = "input"
    /\ norm1 = <<>>
    /\ norm2 = <<>>
    /\ renorm1 = <<>>
    /\ renorm2 = <<>>
    /\ norm1_no_ml = <<>>
    /\ norm2_no_ml = <<>>
    /\ score = no_match
    /\ scoreRev = no_match
    /\ dist = 0
    /\ distRev = 0
    /\ distTo3 = 0
    /\ distFrom3 = 0
    /\ OffsetIdle
    /\ PipelineIdle

(* distTo3 = levenshtein_distance(text1, text3);                           *)
(* distFrom3 = levenshtein_distance(text3, text2)                          *)
LevenshteinThrough ==
    /\ pc = "distance_both"
    /\ distTo3' = levenshtein_distance(text1, text3)
    /\ distFrom3' = levenshtein_distance(text3, text2)
    /\ pc' = "distance_through"
    /\ UNCHANGED <<text1, text2, text3, fuzzy, norm1, norm2, renorm1, renorm2, norm1_no_ml, norm2_no_ml,
                   score, scoreRev, dist, distRev>>
    /\ UNCHANGED <<offsetVars, pipelineVars>>

NextDistance ==
    \/ Levenshtein
    \/ LevenshteinSwapped
    \/ LevenshteinThrough

SpecDistance == InitDistance /\ [][NextDistance]_vars

-----------------------------------------------------------------------------
(* The two objects that look offsets up, built on the same offset file.    *)

MaxOffsetItems == 3
MaxNode        == 11

(* Keys of the JSON object: decimal strings, two of them for the same      *)
(* integer, and one that is no number.                                     *)
OffsetKeys ==
    { <<DIGIT_ONE>>, <<DIGIT_THREE>>, <<DIGIT_ZERO, DIGIT_ONE>>,
      <<DIGIT_ONE, DIGIT_ZERO>>, <<LATIN_T>> }

OffsetValues == {-2, 0, 5}

(* The parsed JSON object: items in file order, no key twice.              *)
OffsetData ==
    {d \in UNION {[1 .. k -> OffsetKeys \X OffsetValues] : k \in 0 .. MaxOffsetItems} :
        \A i, j \in 1 .. Len(d) : i # j => d[i][1] # d[j][1]}

NodeIds == 0 .. MaxNode

CallerIdle ==
    /\ text1 = <<>>
    /\ text2 = <<>>
    /\ fuzzy = TRUE
    /\ norm1 = <<>>
    /\ norm2 = <<>>
    /\ renorm1 = <<>>
    /\ renorm2 = <<>>
    /\ norm1_no_ml = <<>>
    /\ norm2_no_ml = <<>>
    /\ score = no_match
    /\ scoreRev = no_match
    /\ dist = 0
    /\ distRev = 0
    /\ text3 = <<>>
    /\ distTo3 = 0
    /\ distFrom3 = 0

(* No object exists yet; the offset file is missing or holds a JSON        *)
(* object.                                                                 *)
InitOffset ==
    /\ CallerIdle
    /\ pc = "offsets_start"
    /\ offset_file \in {MissingFile, UnparsableFile} \cup {File(d) : d \in OffsetData}
    /\ english_offset_map = EmptyDict
    /\ kjv_offset_map = EmptyDict
    /\ bhsa_node = 0
    /\ english_offset = 0
    /\ kjv_offset = 0
    /\ PipelineIdle

callerVars == <<text1, text2, fuzzy, norm1, norm2, renorm1, renorm2, norm1_no_ml, norm2_no_ml,
                score, scoreRev, dist, distRev, distanceVars>>

(* EnglishTranslation.__init__ and _load_offsets: offset_map is {} when    *)
(* the file is missing and when loading it raises.                         *)
EnglishTranslationInit ==
    /\ pc = "offsets_start"
    /\ english_offset_map' =
          IF OffsetFileLoads(offset_file)
          THEN IntKeyed(offset_file.data, 1, EmptyDict)
          ELSE EmptyDict
    /\ pc' = "english_ready"
    /\ UNCHANGED <<offset_file, kjv_offset_map, bhsa_node, english_offset, kjv_offset>>
    /\ UNCHANGED <<callerVars, pipelineVars>>

(* KJV_Align.__init__, the part that loads the offset map: open and int    *)
(* raise out of the constructor, and no object is made.                    *)
KJV_AlignInit ==
    /\ pc = "english_ready"
    /\ IF OffsetFileLoads(offset_file)
       THEN /\ kjv_offset_map' = IntKeyed(offset_file.data, 1, EmptyDict)
            /\ pc' = "aligners_ready"
       ELSE /\ kjv_offset_map' = kjv_offset_map
            /\ pc' = "kjv_align_failed"
    /\ UNCHANGED <<offset_file, english_offset_map, bhsa_node, english_offset, kjv_offset>>
    /\ UNCHANGED <<callerVars, pipelineVars>>

(* english_offset = EnglishTranslation._get_offset(bhsa_node)              *)
EnglishGetOffset ==
    /\ pc \in {"aligners_ready", "kjv_align_failed"}
    /\ \E n \in NodeIds :
          /\ bhsa_node' = n
          /\ english_offset' = EnglishTranslation_get_offset(english_offset_map, n)
    /\ pc' = IF pc = "aligners_ready" THEN "english_offset" ELSE "english_offset_only"
    /\ UNCHANGED <<offset_file, english_offset_map, kjv_offset_map, kjv_offset>>
    /\ UNCHANGED <<callerVars, pipelineVars>>

(* kjv_offset = KJV_Align._get_offset(bhsa_node)                           *)
KjvGetOffset ==
    /\ pc = "english_offset"
    /\ kjv_offset' = KJV_Align_get_offset(kjv_offset_map, bhsa_node)
    /\ pc' = "both_offsets"
    /\ UNCHANGED <<offset_file, english_offset_map, kjv_offset_map, bhsa_node,
                   english_offset>>
    /\ UNCHANGED <<callerVars, pipelineVars>>

NextOffset ==
    \/ EnglishTranslationInit
    \/ KJV_AlignInit
    \/ EnglishGetOffset
    \/ KjvGetOffset

SpecOffset == InitOffset /\ [][NextOffset]_vars

-----------------------------------------------------------------------------
(* The pipeline: build_mapping.py runs, then create_complete_bhsa_         *)
(* mapping.py, then apply_manual_corrections.py, each from the shell.      *)

MaxEntries        == 2
MaxWords          == 2
MaxCorrectionRuns == 2

(* Strong's numbers of the dictionary, in file order.                      *)
StrongsNumbers == <<"H1", "H853", "H9003">>

(* Lemmas: av (father), et (the object marker) and Joiada.                 *)
Lemmas == { <<ALEF, QAMATS, BET>>, <<ALEF, TSERE, TAV>>,
            <<YOD, VAV, HOLAM, YOD, QAMATS, DALET, QAMATS, AYIN>> }

(* A dict with a lemma, a dict with its Hebrew under 'word', a dict with   *)
(* neither, and an entry that is a string.                                 *)
StrongsEntries ==
    {DictEntry({"lemma", "kjv_def"}, w, <<>>) : w \in Lemmas}
        \cup { DictEntry({"word", "kjv_def"}, <<>>, <<ALEF, BET>>),
               DictEntry({"kjv_def"}, <<>>, <<>>),
               NonDictEntry }

(* The dictionaries: every choice of numbers among the first MaxEntries,   *)
(* each with one of the entries.                                           *)
Dictionaries ==
    UNION { { LET nums == SortedKeys(P)
              IN  [k \in 1 .. Len(nums) |-> <<StrongsNumbers[nums[k]], f[nums[k]]>>]
              : f \in [P -> StrongsEntries] }
            : P \in SUBSET (1 .. MaxEntries) }

(* Word lines of the corpus: the prefix be, et and av.                     *)
CorpusWords ==
    { [lex |-> <<BET>>, voc_lex |-> <<BET, SHEVA, DAGESH>>, lang |-> "Hebrew"],
      [lex |-> <<ALEF, TAV>>, voc_lex |-> <<ALEF, TSERE, TAV>>, lang |-> "Hebrew"],
      [lex |-> <<ALEF, BET>>, voc_lex |-> <<ALEF, QAMATS, BET>>, lang |-> "Hebrew"] }

(* The corpora: up to MaxWords word lines; voc_lex_utf8.tf may be one line *)
(* shorter than lex_utf8.tf.                                               *)
Corpora ==
    LET full == UNION {[1 .. k -> CorpusWords] : k \in 0 .. MaxWords}
    IN  full \cup { [c EXCEPT ![Len(c)].voc_lex = <<>>] : c \in full \ {<<>>} }

(* Corpora with Joiada in three spellings: as the lemma has it, with one   *)
(* doubled yod, and with every vowel letter doubled.  The fallback scan    *)
(* scores the second 0.85 against the lemma; the third is three letters    *)
(* longer than the lemma.                                                  *)
SpellingCorpora ==
    LET joiada == [lex |-> <<YOD, VAV, YOD, DALET, AYIN>>,
                   voc_lex |-> <<YOD, VAV, HOLAM, YOD, QAMATS, DALET, QAMATS, AYIN>>,
                   lang |-> "Hebrew"]
        plene  == [lex |-> <<YOD, VAV, YOD, YOD, DALET, AYIN>>,
                   voc_lex |-> <<YOD, VAV, HOLAM, YOD, YOD, QAMATS, DALET, QAMATS, AYIN>>,
                   lang |-> "Hebrew"]
        far    == [lex |-> <<YOD, YOD, VAV, VAV, YOD, YOD, DALET, AYIN>>,
                   voc_lex |-> <<YOD, YOD, VAV, HOLAM, VAV, YOD, YOD, QAMATS, DALET,
                                 QAMATS, AYIN>>,
                   lang |-> "Hebrew"]
    IN  { <<plene>>, <<joiada, plene>>, <<plene, joiada>>, <<far>>, <<far, plene>> }

(* A corpus in which one consonantal form has eleven vocalizations, one    *)
(* more than find_bhsa_matches returns.                                    *)
LargeCorpus ==
    [i \in 1 .. 11 |->
        [lex |-> <<ALEF, BET>>, voc_lex |-> <<ALEF, SHEVA + i, BET>>, lang |-> "Hebrew"]]

InitPipeline ==
    /\ CallerIdle
    /\ OffsetIdle
    /\ pc = "shell"
    /\ strongs_file \in {MissingFile, UnparsableFile} \cup {File(d) : d \in Dictionaries}
    /\ bhsa_files \in {MissingFile}
                      \cup {File(c) : c \in Corpora \cup SpellingCorpora \cup {LargeCorpus}}
    /\ tf_installed \in BOOLEAN
    /\ use_bhsa = FALSE
    /\ strongs_data = <<>>
    /\ bhsa_lexemes = <<>>
    /\ bhsa_index = <<>>
    /\ mapping = <<>>
    /\ stats = NewStats
    /\ strongs_to_bhsa_json = MissingFile
    /\ ambiguous_mappings_json = MissingFile
    /\ mapping_stats_txt = MissingFile
    /\ bhsa_to_strongs = <<>>
    /\ all_bhsa = <<>>
    /\ bhsa_to_strongs_complete_json = MissingFile
    /\ bhsa_to_strongs_summary_json = MissingFile
    /\ exit_status = [p \in Programs |-> 0]
    /\ runs = [p \in Programs |-> 0]
    /\ console = [p \in Programs |-> <<>>]

libraryVars == <<callerVars, offsetVars>>

(* The program ends with the given status: sys.exit(status), an uncaught   *)
(* exception (status 1), or the end of the script (status 0); printed is   *)
(* what the run has printed by then (errors, warnings and the last line).  *)
Exit(program, status, printed) ==
    /\ pc' = "shell"
    /\ exit_status' = [exit_status EXCEPT ![program] = status]
    /\ console' = [console EXCEPT ![program] = printed]

(* The run has printed one more line.                                      *)
Printed(program, line) == Append(console[program], line)

(* Mutant of main: the builder is made without the check of the path.      *)
MainStart_no_path_check ==
    /\ pc = "shell"
    /\ runs["build_mapping"] = 0
    /\ runs' = [runs EXCEPT !["build_mapping"] = 1]
    /\ pc' = "path_checked"
    /\ UNCHANGED <<exit_status, console>>
    /\ UNCHANGED <<sourceVars, builderVars, libraryVars>>
    /\ UNCHANGED <<strongs_to_bhsa_json, ambiguous_mappings_json, mapping_stats_txt,
                   bhsa_to_strongs, all_bhsa, bhsa_to_strongs_complete_json,
                   bhsa_to_strongs_summary_json>>

(* main, to the check of the Strong's path.                                *)
MainStart ==
    /\ pc = "shell"
    /\ runs["build_mapping"] = 0
    /\ runs' = [runs EXCEPT !["build_mapping"] = 1]
    /\ IF ~strongs_file.exists
       THEN Exit("build_mapping", 1, <<"Error: Strong's file not found">>)
       ELSE pc' = "path_checked" /\ UNCHANGED <<exit_status, console>>
    /\ UNCHANGED <<sourceVars, builderVars, libraryVars>>
    /\ UNCHANGED <<strongs_to_bhsa_json, ambiguous_mappings_json, mapping_stats_txt,
                   bhsa_to_strongs, all_bhsa, bhsa_to_strongs_complete_json,
                   bhsa_to_strongs_summary_json>>

(* main: `import tf` decides use_bhsa; MappingBuilder.__init__.            *)
MakeBuilder ==
    /\ pc = "path_checked"
    /\ use_bhsa' = tf_installed
    /\ strongs_data' = <<>>
    /\ bhsa_lexemes' = <<>>
    /\ bhsa_index' = <<>>
    /\ mapping' = <<>>
    /\ stats' = NewStats
    /\ pc' = "builder_made"
    /\ console' = IF tf_installed THEN console
                  ELSE [console EXCEPT !["build_mapping"] =
                           Printed("build_mapping",
                                   "Text-Fabric not available - running in demo mode")]
    /\ UNCHANGED <<sourceVars, libraryVars>>
    /\ UNCHANGED <<strongs_to_bhsa_json, ambiguous_mappings_json, mapping_stats_txt,
                   bhsa_to_strongs, all_bhsa, bhsa_to_strongs_complete_json,
                   bhsa_to_strongs_summary_json, exit_status, runs>>

(* load_strongs_data                                                       *)
LoadStrongsData ==
    /\ pc = "builder_made"
    /\ IF ~strongs_file.exists \/ ~strongs_file.parses
       THEN /\ Exit("build_mapping", 1,
                    Printed("build_mapping",
                            IF ~strongs_file.exists THEN "Error: File not found"
                            ELSE "Error parsing JSON"))
            /\ UNCHANGED <<strongs_data, stats>>
       ELSE /\ strongs_data' = strongs_file.data
            /\ stats' = [stats EXCEPT !.total_strongs = Len(strongs_file.data)]
            /\ pc' = "strongs_loaded"
            /\ UNCHANGED <<exit_status, console>>
    /\ UNCHANGED <<sourceVars, use_bhsa, bhsa_lexemes, bhsa_index, mapping, libraryVars>>
    /\ UNCHANGED <<strongs_to_bhsa_json, ambiguous_mappings_json, mapping_stats_txt,
                   bhsa_to_strongs, all_bhsa, bhsa_to_strongs_complete_json,
                   bhsa_to_strongs_summary_json, runs>>

(* main: `if use_bhsa: builder.load_bhsa_data()`; without the corpus files *)
(* the builder goes on in demo mode.                                       *)
LoadBhsaData ==
    /\ pc = "strongs_loaded"
    /\ IF ~use_bhsa
       THEN UNCHANGED <<use_bhsa, bhsa_lexemes, bhsa_index, console>>
       ELSE IF ~bhsa_files.exists
            THEN /\ use_bhsa' = FALSE
                 /\ console' = [console EXCEPT !["build_mapping"] =
                                    Printed("build_mapping",
                                            "BHSA path not found - continuing in demo mode")]
                 /\ UNCHANGED <<bhsa_lexemes, bhsa_index>>
            ELSE /\ bhsa_lexemes' = Values(LexemeMap(bhsa_files.data, 1, <<>>))
                 /\ bhsa_index' = BuildIndex(bhsa_lexemes', 1, bhsa_index)
                 /\ UNCHANGED <<use_bhsa, console>>
    /\ pc' = "bhsa_loaded"
    /\ UNCHANGED <<sourceVars, strongs_data, mapping, stats, libraryVars>>
    /\ UNCHANGED <<strongs_to_bhsa_json, ambiguous_mappings_json, mapping_stats_txt,
                   bhsa_to_strongs, all_bhsa, bhsa_to_strongs_complete_json,
                   bhsa_to_strongs_summary_json, exit_status, runs>>

(* self.mapping[strongs_num] = mapping_entry, and the counts that          *)
(* process_strongs_entry made for it.                                      *)
Processed(strongs_num, mapping_entry) ==
    /\ stats' = CountedStats(stats, mapping_entry.bhsa_matches)
    /\ mapping' = Store(mapping, strongs_num, mapping_entry)

(* One iteration of the loop of build_mapping: process_strongs_entry on    *)
(* the next entry.  entry.get raises AttributeError when the entry is no   *)
(* dict; main catches it, prints it and exits with status 1.               *)
ProcessStrongsEntry ==
    /\ pc = "bhsa_loaded"
    /\ Len(mapping) < Len(strongs_data)
    /\ LET strongs_num == strongs_data[Len(mapping) + 1][1]
           entry       == strongs_data[Len(mapping) + 1][2]
       IN  IF ~entry.is_dict
           THEN /\ Exit("build_mapping", 1,
                        Printed("build_mapping",
                                "Error: 'str' object has no attribute 'get'"))
                /\ UNCHANGED <<mapping, stats>>
           ELSE /\ Processed(strongs_num,
                             process_strongs_entry(use_bhsa, bhsa_index, strongs_num,
                                                   entry))
                /\ UNCHANGED <<pc, exit_status, console>>
    /\ UNCHANGED <<sourceVars, use_bhsa, strongs_data, bhsa_lexemes, bhsa_index,
                   libraryVars>>
    /\ UNCHANGED <<strongs_to_bhsa_json, ambiguous_mappings_json, mapping_stats_txt,
                   bhsa_to_strongs, all_bhsa, bhsa_to_strongs_complete_json,
                   bhsa_to_strongs_summary_json, runs>>

(* The entries generate_outputs writes to ambiguous_mappings.json.         *)
Ambiguous(m) ==
    SelectSeq(m, LAMBDA item : item[2].confidence \in {"medium", "low"}
                               \/ item[2].match_count > 1)

(* generate_outputs, after the loop: the two JSON files, then the          *)
(* statistics, whose percentages divide by total_strongs; main catches the *)
(* ZeroDivisionError and exits with status 1, the file begun.              *)
GenerateOutputs ==
    /\ pc = "bhsa_loaded"
    /\ Len(mapping) = Len(strongs_data)
    /\ strongs_to_bhsa_json' = File(mapping)
    /\ ambiguous_mappings_json' = File(Ambiguous(mapping))
    /\ IF stats.total_strongs = 0
       THEN /\ mapping_stats_txt' = UnparsableFile
            /\ Exit("build_mapping", 1,
                    Printed("build_mapping", "Error: division by zero"))
       ELSE /\ mapping_stats_txt' = File(<<stats>>)
            /\ pc' = "outputs_written"
            /\ UNCHANGED <<exit_status, console>>
    /\ UNCHANGED <<sourceVars, builderVars, libraryVars>>
    /\ UNCHANGED <<bhsa_to_strongs, all_bhsa, bhsa_to_strongs_complete_json,
                   bhsa_to_strongs_summary_json, runs>>

(* print_summary and the end of main.                                      *)
PrintSummary ==
    /\ pc = "outputs_written"
    /\ Exit("build_mapping", 0, Printed("build_mapping", "Mapping complete!"))
    /\ UNCHANGED <<sourceVars, builderVars, libraryVars>>
    /\ UNCHANGED <<strongs_to_bhsa_json, ambiguous_mappings_json, mapping_stats_txt,
                   bhsa_to_strongs, all_bhsa, bhsa_to_strongs_complete_json,
                   bhsa_to_strongs_summary_json, runs>>

(* create_complete_bhsa_to_strongs, step 1: open raises when build_mapping *)
(* wrote no strongs_to_bhsa.json.                                          *)
CompleteReverseMapping ==
    /\ pc = "shell"
    /\ runs["build_mapping"] = 1 /\ runs["create_complete"] = 0
    /\ runs' = [runs EXCEPT !["create_complete"] = 1]
    /\ all_bhsa' = <<>>
    /\ IF ~strongs_to_bhsa_json.exists
       THEN /\ Exit("create_complete", 1, <<"FileNotFoundError">>)
            /\ bhsa_to_strongs' = <<>>
       ELSE /\ bhsa_to_strongs' = ReverseMapping(strongs_to_bhsa_json.data, 1, <<>>)
            /\ pc' = "reverse_built"
            /\ UNCHANGED <<exit_status, console>>
    /\ UNCHANGED <<sourceVars, builderVars, libraryVars>>
    /\ UNCHANGED <<strongs_to_bhsa_json, ambiguous_mappings_json, mapping_stats_txt,
                   bhsa_to_strongs_complete_json, bhsa_to_strongs_summary_json>>

(* Step 2: open raises when the corpus files are missing.                  *)
CompleteLoadLexemes ==
    /\ pc = "reverse_built"
    /\ IF ~bhsa_files.exists
       THEN /\ Exit("create_complete", 1,
                    Printed("create_complete", "FileNotFoundError"))
            /\ UNCHANGED all_bhsa
       ELSE /\ all_bhsa' = AllBhsa(bhsa_files.data, 1, <<>>)
            /\ pc' = "lexemes_loaded"
            /\ UNCHANGED <<exit_status, console>>
    /\ UNCHANGED <<sourceVars, builderVars, libraryVars>>
    /\ UNCHANGED <<strongs_to_bhsa_json, ambiguous_mappings_json, mapping_stats_txt,
                   bhsa_to_strongs, bhsa_to_strongs_complete_json,
                   bhsa_to_strongs_summary_json, runs>>

(* Step 3: the coverage pass over the unmatched lexemes.                   *)
CompleteCoveragePass ==
    /\ pc = "lexemes_loaded"
    /\ LET unmatched == SelectSeq(Keys(all_bhsa),
                                  LAMBDA lex : ~HasKey(bhsa_to_strongs, lex))
       IN  bhsa_to_strongs' =
               CoveragePass(unmatched, all_bhsa, strongs_to_bhsa_json.data, 1,
                            bhsa_to_strongs)
    /\ pc' = "coverage_done"
    /\ UNCHANGED <<sourceVars, builderVars, libraryVars>>
    /\ UNCHANGED <<strongs_to_bhsa_json, ambiguous_mappings_json, mapping_stats_txt,
                   all_bhsa, bhsa_to_strongs_complete_json,
                   bhsa_to_strongs_summary_json, exit_status, runs, console>>

(* Steps 4 and 5: the mapping is saved, then the summary, whose coverage   *)
(* divides by the number of lexemes.                                       *)
CompleteSave ==
    /\ pc = "coverage_done"
    /\ bhsa_to_strongs_complete_json' = File(bhsa_to_strongs)
    /\ IF Len(all_bhsa) = 0
       THEN /\ Exit("create_complete", 1,
                    Printed("create_complete", "ZeroDivisionError"))
            /\ UNCHANGED bhsa_to_strongs_summary_json
       ELSE /\ bhsa_to_strongs_summary_json' =
                   File(<<CompleteSummary(all_bhsa, bhsa_to_strongs)>>)
            /\ Exit("create_complete", 0,
                    Printed("create_complete", "COMPLETE BHSA TO STRONG'S MAPPING SUMMARY"))
    /\ UNCHANGED <<sourceVars, builderVars, libraryVars>>
    /\ UNCHANGED <<strongs_to_bhsa_json, ambiguous_mappings_json, mapping_stats_txt,
                   bhsa_to_strongs, all_bhsa, runs>>

(* apply_manual_corrections: a whole run.  open raises when either JSON    *)
(* file is missing.                                                        *)
ApplyManualCorrections ==
    /\ pc = "shell"
    /\ runs["create_complete"] = 1
    /\ runs["apply_corrections"] < MaxCorrectionRuns
    /\ runs' = [runs EXCEPT !["apply_corrections"] = @ + 1]
    /\ IF ~bhsa_to_strongs_complete_json.exists \/ ~strongs_to_bhsa_json.exists
       THEN /\ Exit("apply_corrections", 1, <<"FileNotFoundError">>)
            /\ UNCHANGED <<bhsa_to_strongs_complete_json, bhsa_to_strongs_summary_json>>
       ELSE LET result == ApplyCorrections(bhsa_to_strongs_complete_json.data,
                                           strongs_to_bhsa_json.data, 1, 0)
            IN  /\ bhsa_to_strongs_complete_json' = File(result.mapping)
                /\ bhsa_to_strongs_summary_json' =
                       File(<<CorrectedSummary(result.mapping, result.corrections_made)>>)
                /\ Exit("apply_corrections", 0, <<"Updated Statistics">>)
    /\ UNCHANGED <<sourceVars, builderVars, libraryVars>>
    /\ UNCHANGED <<strongs_to_bhsa_json, ambiguous_mappings_json, mapping_stats_txt,
                   bhsa_to_strongs, all_bhsa>>

NextPipeline ==
    \/ MainStart
    \/ MakeBuilder
    \/ LoadStrongsData
    \/ LoadBhsaData
    \/ ProcessStrongsEntry
    \/ GenerateOutputs
    \/ PrintSummary
    \/ CompleteReverseMapping
    \/ CompleteLoadLexemes
    \/ CompleteCoveragePass
    \/ CompleteSave
    \/ ApplyManualCorrections

SpecPipeline == InitPipeline /\ [][NextPipeline]_vars

TypeOK ==
    /\ pc \in {"input", "normalized", "renormalized", "collapsed", "compared", "compared_both",
               "compared_normalized", "distance", "distance_both",
               "distance_through",
               "offsets_start", "english_ready", "aligners_ready", "kjv_align_failed",
               "english_offset", "english_offset_only", "both_offsets",
               "shell", "path_checked", "builder_made", "strongs_loaded",
               "bhsa_loaded", "outputs_written", "reverse_built", "lexemes_loaded",
               "coverage_done"}
    /\ fuzzy \in BOOLEAN
    /\ dist \in Nat /\ distRev \in Nat
    /\ distTo3 \in Nat /\ distFrom3 \in Nat
    /\ bhsa_node \in Nat
    /\ english_offset \in Int /\ kjv_offset \in Int
    /\ tf_installed \in BOOLEAN /\ use_bhsa \in BOOLEAN
    /\ \A p \in Programs : exit_status[p] \in {0, 1} /\ runs[p] \in Nat
    /\ \A p \in Programs : console[p] \in Seq(STRING)
    /\ Len(mapping) <= Len(strongs_data)
    /\ score.den > 0 /\ scoreRev.den > 0

-----------------------------------------------------------------------------
(* Vocabulary of the properties.                                           *)

Range(s) == {s[i] : i \in 1 .. Len(s)}

IsString(t) == t # None

HebrewLetters == \H05D0 .. \H05EA

FinalLetters == {FINAL_KAF, FINAL_MEM, FINAL_NUN, FINAL_PE, FINAL_TSADI}

(* The 22 base consonants.                                                 *)
BaseConsonants == HebrewLetters \ FinalLetters

BaseLetter(c) ==
    CASE c = FINAL_KAF   -> KAF
      [] c = FINAL_MEM   -> MEM
      [] c = FINAL_NUN   -> NUN
      [] c = FINAL_PE    -> PE
      [] c = FINAL_TSADI -> TSADI
      [] OTHER           -> c

(* The Hebrew letters of a text in their order, each final form replaced   *)
(* by its base letter.                                                     *)
Skeleton(text) ==
    LET letters == SelectSeq(text, LAMBDA c : c \in HebrewLetters)
    IN  [i \in 1 .. Len(letters) |-> BaseLetter(letters[i])]

(* b is a with one or more occurrences of a final form replaced by the     *)
(* base letter.                                                            *)
FinalFormsReplaced(a, b) ==
    /\ IsString(a) /\ IsString(b)
    /\ Len(a) = Len(b)
    /\ a # b
    /\ \A i \in 1 .. Len(a) :
          b[i] = a[i] \/ (a[i] \in FinalLetters /\ b[i] = BaseLetter(a[i]))

-----------------------------------------------------------------------------
(* C1: normalize_hebrew is idempotent: normalizing a normalized form       *)
(* returns it unchanged, whatever the input was.                           *)
C1_NormalizeIdempotent ==
    pc = "renormalized" => renorm1 = norm1 /\ renorm2 = norm2

(* A text with a mark, a final form and a non-Hebrew character was         *)
(* normalized twice.                                                       *)
C1_Witness ==
    /\ pc = "renormalized"
    /\ {LATIN_T, QAMATS, FINAL_KAF} \subseteq Range(text1)
    /\ norm1 # <<>>
    /\ norm1 # text1

(* C2: the output of normalize_hebrew holds base consonants only, and is   *)
(* the sequence of the input's Hebrew letters, in order, each final form   *)
(* replaced by its base letter.                                            *)
C2_OutputIsSkeleton ==
    pc = "normalized" =>
        /\ IsString(text1) =>
              Range(norm1) \subseteq BaseConsonants /\ norm1 = Skeleton(text1)
        /\ IsString(text2) =>
              Range(norm2) \subseteq BaseConsonants /\ norm2 = Skeleton(text2)

(* A letter, then a non-Hebrew character or a mark, then a final form.     *)
C2_Witness ==
    /\ pc = "normalized"
    /\ IsString(text1)
    /\ \E i, j, k \in 1 .. Len(text1) :
          /\ i < j /\ j < k
          /\ text1[i] \in BaseConsonants
          /\ text1[j] \notin HebrewLetters
          /\ text1[k] \in FinalLetters
    /\ Len(norm1) >= 2

(* C3: replacing occurrences of a final form by the base letter, at any    *)
(* position, does not change the normalized form.                          *)
C3_FinalFormsPositionIndependent ==
    pc = "normalized" /\ FinalFormsReplaced(text1, text2) => norm1 = norm2

(* The replaced final form is not the last letter of the text.             *)
C3_Witness ==
    /\ pc = "normalized"
    /\ FinalFormsReplaced(text1, text2)
    /\ \E i \in 1 .. Len(text1) - 1 :
          /\ text1[i] \in FinalLetters
          /\ text2[i] # text1[i]
          /\ text1[i + 1] \in HebrewLetters

-----------------------------------------------------------------------------
(* Vocabulary of the properties on scores and distances.                   *)

Compared == pc \in {"compared", "compared_both", "compared_normalized"}

(* The arguments of the call that returned score.                          *)
Arg1 == IF pc = "compared_normalized" THEN norm1 ELSE text1
Arg2 == IF pc = "compared_normalized" THEN norm2 ELSE text2

NonEmptyString(t) == IsString(t) /\ t # <<>>

(* y is x with one vowel letter (vav or yod) more.                         *)
OneMoreVowelLetter(x, y) ==
    /\ Len(y) = Len(x) + 1
    /\ \E i \in 1 .. Len(y) :
          /\ y[i] \in {VAV, YOD}
          /\ x = SubSeq(y, 1, i - 1) \o SubSeq(y, i + 1, Len(y))

(* Two words whose consonantal skeletons are plene and defective spellings *)
(* of each other.                                                          *)
PleneDefective(a, b) ==
    /\ NonEmptyString(a) /\ NonEmptyString(b)
    /\ Skeleton(a) # <<>> /\ Skeleton(b) # <<>>
    /\ \/ OneMoreVowelLetter(Skeleton(a), Skeleton(b))
       \/ OneMoreVowelLetter(Skeleton(b), Skeleton(a))

(* The textbook Levenshtein distance: the least number of insertions,      *)
(* deletions and substitutions of one character, each of cost 1.           *)
RECURSIVE EditDistance(_, _)
EditDistance(a, b) ==
    IF a = <<>> THEN Len(b)
    ELSE IF b = <<>> THEN Len(a)
    ELSE IF Head(a) = Head(b) THEN EditDistance(Tail(a), Tail(b))
    ELSE 1 + Min3(EditDistance(Tail(a), b),
                  EditDistance(a, Tail(b)),
                  EditDistance(Tail(a), Tail(b)))

-----------------------------------------------------------------------------
(* C4: compare_hebrew is symmetric: the two orders of the arguments give   *)
(* the same score, with fuzzy enabled or disabled.                         *)
C4_CompareSymmetric ==
    pc = "compared_both" => scoreRev = score

(* Forms of different lengths scored by the edit-distance tier.            *)
C4_Witness ==
    /\ pc = "compared_both"
    /\ fuzzy
    /\ Len(Skeleton(text1)) < Len(Skeleton(text2))
    /\ RatLt(no_match, score)
    /\ RatLt(score, fuzzy_weight)

(* C5: compare_hebrew(x, x) is 1.0 for every non-empty string x.           *)
C5_CompareIdentity ==
    Compared /\ NonEmptyString(Arg1) /\ Arg1 = Arg2 => score = Rat(1, 1)

(* A non-empty text without any Hebrew letter compared with itself.        *)
C5_Witness ==
    /\ pc = "compared"
    /\ NonEmptyString(text1)
    /\ text1 = text2
    /\ Skeleton(text1) = <<>>
    /\ LATIN_T \in Range(text1)

(* C6: with the default weights every score is in [0.0, 1.0].              *)
C6_ScoreInUnitInterval ==
    Compared =>
        /\ RatLe(Rat(0, 1), score) /\ RatLe(score, Rat(1, 1))
        /\ pc = "compared_both" =>
              RatLe(Rat(0, 1), scoreRev) /\ RatLe(scoreRev, Rat(1, 1))

(* A score of the edit-distance tier, strictly between the bounds.         *)
C6_Witness ==
    /\ pc = "compared"
    /\ fuzzy
    /\ Skeleton(text1) # Skeleton(text2)
    /\ RatLt(Rat(0, 1), score)
    /\ RatLt(score, Rat(7, 10))

C8_FinalFormFullMatch ==
    Compared /\ FinalFormsReplaced(Arg1, Arg2) => score = Rat(1, 1)

(* C9: plene and defective spellings of a word score at least 0.7 with     *)
(* fuzzy enabled, vocalized or normalized beforehand.                      *)
C9_PleneDefectiveSimilar ==
    Compared /\ fuzzy /\ PleneDefective(Arg1, Arg2) => RatLe(Rat(7, 10), score)

(* C10: levenshtein_distance is the textbook distance, in either order of  *)
(* its arguments.                                                          *)
C10_LevenshteinIsTextbook ==
    /\ pc \in {"distance", "distance_both"} => dist = EditDistance(text1, text2)
    /\ pc = "distance_both" => distRev = dist

(* The shorter string first (the operands are swapped), and a distance     *)
(* that is neither the difference of the lengths nor the longer length.    *)
C10_Witness ==
    /\ pc = "distance_both"
    /\ 0 < Len(text1) /\ Len(text1) < Len(text2)
    /\ Len(text2) - Len(text1) < dist
    /\ dist < Len(text2)

-----------------------------------------------------------------------------
(* C11: levenshtein_distance(a, a) is 0; levenshtein_distance(a, '') and   *)
(* levenshtein_distance('', a) are len(a); and for any three strings the   *)
(* distance from a to c is at most the distance from a to b plus the       *)
(* distance from b to c (here a is text1, c is text2 and b is text3).      *)
C11_DistanceBounds ==
    /\ pc \in {"distance", "distance_both", "distance_through"} =>
          /\ (text1 = text2 => dist = 0)
          /\ (text2 = <<>> => dist = Len(text1))
          /\ (text1 = <<>> => dist = Len(text2))
    /\ pc \in {"distance_both", "distance_through"} =>
          /\ (text1 = text2 => distRev = 0)
          /\ (text1 = <<>> => distRev = Len(text2))
          /\ (text2 = <<>> => distRev = Len(text1))
    /\ pc = "distance_through" => dist <= distTo3 + distFrom3

(* Three different non-empty strings for which the way through the third   *)
(* is exactly as long as the direct distance.                              *)
C11_Witness ==
    /\ pc = "distance_through"
    /\ text1 # text2 /\ text1 # text3 /\ text2 # text3
    /\ text1 # <<>> /\ text2 # <<>> /\ text3 # <<>>
    /\ distTo3 > 0 /\ distFrom3 > 0
    /\ dist = distTo3 + distFrom3

-----------------------------------------------------------------------------
(* A text with no Hebrew letter in it.                                     *)
NoHebrewLetter(t) == IsString(t) /\ Range(t) \cap HebrewLetters = {}

EmptyOrNone(t) == t = None \/ t = <<>>

(* C14: compare_hebrew with fuzzy disabled returns exactly 0.0 for every   *)
(* pair of non-empty strings that are neither identical nor equal after    *)
(* normalization.                                                          *)
C14_NoFuzzyNoMatch ==
    /\ Compared
    /\ ~fuzzy
    /\ NonEmptyString(Arg1) /\ NonEmptyString(Arg2)
    /\ Arg1 # Arg2
    /\ Skeleton(Arg1) # Skeleton(Arg2)
    => score = Rat(0, 1)

(* Two words one letter apart, which fuzzy matching would score above 0.   *)
C14_Witness ==
    /\ pc = "compared"
    /\ ~fuzzy
    /\ NonEmptyString(text1) /\ NonEmptyString(text2)
    /\ Skeleton(text1) # Skeleton(text2)
    /\ Len(Skeleton(text1)) = 3 /\ Len(Skeleton(text2)) = 3
    /\ EditDistance(Skeleton(text1), Skeleton(text2)) = 1
    /\ score = Rat(0, 1)

(* A text with no character of the Hebrew block (U+0590 to U+05FF) in it:  *)
(* no letter, no point, no Hebrew punctuation.                             *)
HebrewBlock == \H0590 .. \H05FF

NonHebrew(t) == IsString(t) /\ Range(t) \cap HebrewBlock = {}

(* C15: for any two different strings neither of which contains a Hebrew   *)
(* letter, compare_hebrew returns 0.0.  Stated for the strings the claim   *)
(* names, Latin letters and digits, which hold no Hebrew character at all. *)
C15_NonHebrewNoMatch ==
    /\ Compared
    /\ NonHebrew(Arg1) /\ NonHebrew(Arg2)
    /\ Arg1 # Arg2
    => score = Rat(0, 1)

(* C16: if either argument of compare_hebrew is empty or None the result   *)
(* is exactly 0.0, also when both are empty, with fuzzy enabled or         *)
(* disabled.                                                               *)
C16_EmptyScoresZero ==
    /\ Compared /\ (EmptyOrNone(Arg1) \/ EmptyOrNone(Arg2)) => score = Rat(0, 1)
    /\ pc = "compared_both" /\ (EmptyOrNone(text1) \/ EmptyOrNone(text2))
          => scoreRev = Rat(0, 1)

(* Both arguments the empty string: identical raw strings.                 *)
C16_Witness ==
    /\ pc = "compared_both"
    /\ text1 = <<>> /\ text2 = <<>>
    /\ score = Rat(0, 1) /\ scoreRev = Rat(0, 1)

(* C17: normalize_hebrew returns the empty string for None, for the empty  *)
(* string and for every string with no Hebrew letter in it.                *)
C17_NormalizeTotal ==
    pc = "normalized" =>
        /\ (EmptyOrNone(text1) \/ NoHebrewLetter(text1)) => norm1 = <<>>
        /\ (EmptyOrNone(text2) \/ NoHebrewLetter(text2)) => norm2 = <<>>

(* A string of a Latin letter, a mark and a punctuation sign of the Hebrew  *)
(* block.                                                                  *)
C17_Witness ==
    /\ pc = "normalized"
    /\ NoHebrewLetter(text1)
    /\ {LATIN_T, QAMATS, MAQAF} \subseteq Range(text1)
    /\ norm1 = <<>>

-----------------------------------------------------------------------------
(* The thresholds of an offset table that are at most n.                   *)
ThresholdsUpTo(offset_map, n) == {k \in DOMAIN offset_map : k <= n}

(* The offset of the greatest threshold that is at most n; 0 without one.  *)
OffsetRule(offset_map, n) ==
    LET T == ThresholdsUpTo(offset_map, n)
    IN  IF T = {} THEN 0
        ELSE offset_map[CHOOSE k \in T : \A x \in T : x <= k]

(* C18: _get_offset(n) returns the offset of the greatest threshold key    *)
(* that is at most n, and 0 when there is none, the empty table included;  *)
(* EnglishTranslation._get_offset and KJV_Align._get_offset return the     *)
(* same offset for the same table and node.                                *)
C18_OffsetLookup ==
    /\ pc \in {"english_offset", "english_offset_only", "both_offsets"} =>
          english_offset = OffsetRule(english_offset_map, bhsa_node)
    /\ pc = "both_offsets" =>
          /\ kjv_offset = OffsetRule(kjv_offset_map, bhsa_node)
          /\ english_offset_map = kjv_offset_map => english_offset = kjv_offset

(* A table of three thresholds, the node between two of them and equal to  *)
(* none, and the offset found not the default.                             *)
C18_Witness ==
    /\ pc = "both_offsets"
    /\ Cardinality(DOMAIN english_offset_map) = 3
    /\ bhsa_node \notin DOMAIN english_offset_map
    /\ \E k \in DOMAIN english_offset_map : k < bhsa_node
    /\ \E k \in DOMAIN english_offset_map : k > bhsa_node
    /\ english_offset # 0
    /\ kjv_offset = english_offset

-----------------------------------------------------------------------------
(* The pipeline's claims.                                                  *)

(* The positions inside a run of build_mapping.py.                         *)
BuildPcs == {"path_checked", "builder_made", "strongs_loaded", "bhsa_loaded",
             "outputs_written"}

(* The run of build_mapping.py has ended.                                  *)
BuildEnded == runs["build_mapping"] = 1 /\ pc \notin BuildPcs

(* The run of build_mapping.py has printed an error.                       *)
ErrorReported ==
    \E i \in DOMAIN console["build_mapping"] :
        console["build_mapping"][i] \in
            {"Error: Strong's file not found", "Error: File not found",
             "Error parsing JSON", "Error: 'str' object has no attribute 'get'",
             "Error: division by zero"}

(* No entry of the mapping m has a BHSA match.                             *)
NoBhsaMatches(m) == \A i \in DOMAIN m : m[i][2].bhsa_matches = <<>>

(* C19 as stated: when the Strong's dictionary file or the BHSA corpus     *)
(* files are missing, no mapping is built or written, and the run ends     *)
(* with an error reported and a nonzero exit status.                       *)
C19_MissingSourceFatal ==
    (~strongs_file.exists \/ ~bhsa_files.exists) =>
        /\ mapping = <<>>
        /\ ~strongs_to_bhsa_json.exists
        /\ BuildEnded => exit_status["build_mapping"] = 1 /\ ErrorReported

(* C19, amended: when the Strong's dictionary file is missing, the run     *)
(* reports the error and ends with a nonzero exit status at the check of   *)
(* the path, and no mapping is built or written.  Missing BHSA corpus      *)
(* files are not fatal: the builder goes on in demo mode, no entry gets a  *)
(* BHSA match, and for a non-empty dictionary of records the run writes    *)
(* one entry per dictionary entry and ends with status 0.                  *)
C19_MissingStrongsFatal ==
    /\ ~strongs_file.exists =>
          /\ pc \notin BuildPcs
          /\ mapping = <<>>
          /\ ~strongs_to_bhsa_json.exists
          /\ BuildEnded => /\ exit_status["build_mapping"] = 1
                           /\ console["build_mapping"] = <<"Error: Strong's file not found">>
    /\ strongs_file.exists /\ ~bhsa_files.exists =>
          /\ pc \in {"bhsa_loaded", "outputs_written"} => ~use_bhsa
          /\ NoBhsaMatches(mapping)
          /\ NoBhsaMatches(strongs_to_bhsa_json.data)
          /\ ( /\ BuildEnded
               /\ strongs_file.parses
               /\ strongs_file.data # <<>>
               /\ \A i \in DOMAIN strongs_file.data : strongs_file.data[i][2].is_dict )
             => /\ exit_status["build_mapping"] = 0
                /\ ~ErrorReported
                /\ strongs_to_bhsa_json = File(mapping)
                /\ Keys(mapping) = Keys(strongs_file.data)

(* The run has ended at the missing Strong's file, the corpus and          *)
(* Text-Fabric being there.                                                *)
C19_Witness ==
    /\ ~strongs_file.exists
    /\ bhsa_files.exists /\ bhsa_files.data # <<>>
    /\ tf_installed
    /\ BuildEnded
    /\ exit_status["build_mapping"] = 1
    /\ console["build_mapping"] = <<"Error: Strong's file not found">>

(* A dictionary entry that is no record, or a record without any of the    *)
(* fields that hold the Hebrew.                                            *)
Malformed(entry) ==
    ~entry.is_dict \/ entry.keys \cap {"lemma", "hebrew", "word", "text"} = {}

(* C20: a malformed dictionary entry does not abort build_mapping: the run *)
(* ends with status 0, the malformed entries are left out of the mapping   *)
(* written and every other entry is in it.  (The builder keeps no count of *)
(* skipped entries: stats has no such field.)                              *)
C20_MalformedEntrySkipped ==
    ( /\ BuildEnded
      /\ strongs_file.exists /\ strongs_file.parses
      /\ \E i \in DOMAIN strongs_file.data : Malformed(strongs_file.data[i][2]) )
    => /\ exit_status["build_mapping"] = 0
       /\ \A i \in DOMAIN strongs_file.data :
              HasKey(strongs_to_bhsa_json.data, strongs_file.data[i][1])
                  <=> ~Malformed(strongs_file.data[i][2])

(* C12: after the coverage pass, for a non-empty dictionary (here even one *)
(* whose entries all have a lemma), every form of the corpus vocabulary is *)
(* a key of the mapping exactly once.                                      *)
C12_FullCoverage ==
    ( /\ pc = "coverage_done"
      /\ strongs_to_bhsa_json.data # <<>>
      /\ \A i \in DOMAIN strongs_to_bhsa_json.data :
             strongs_to_bhsa_json.data[i][2].strongs_normalized # <<>> )
    => \A j \in DOMAIN all_bhsa :
           Cardinality({i \in DOMAIN bhsa_to_strongs :
                           bhsa_to_strongs[i][1] = all_bhsa[j][1]}) = 1

(* C13: after the first run of apply_manual_corrections, every key of      *)
(* MANUAL_CORRECTIONS that is in the mapping has the target of the table,  *)
(* score 1.0, method manual_correction, and as previous_match the number   *)
(* the pipeline had assigned (bhsa_to_strongs, as create_complete saved    *)
(* it).                                                                    *)
C13_OverrideAlwaysWins ==
    ( /\ pc = "shell"
      /\ runs["apply_corrections"] = 1
      /\ exit_status["apply_corrections"] = 0 )
    => \A k \in DOMAIN MANUAL_CORRECTIONS :
           HasKey(bhsa_to_strongs_complete_json.data, MANUAL_CORRECTIONS[k][1]) =>
               LET match == Lookup(bhsa_to_strongs_complete_json.data,
                                   MANUAL_CORRECTIONS[k][1])
               IN  /\ match.strongs = MANUAL_CORRECTIONS[k][2]
                   /\ match.score = Rat(1, 1)
                   /\ match.method = "manual_correction"
                   /\ match.previous_match =
                          Lookup(bhsa_to_strongs, MANUAL_CORRECTIONS[k][1]).strongs


-----------------------------------------------------------------------------
(* The tiers of the fuzzy fallback.                                        *)

(* The call with fuzzy matching enabled went past the consonantal test:    *)
(* both arguments are non-empty strings and their normalized forms differ. *)
FuzzyCase ==
    /\ Compared
    /\ fuzzy
    /\ NonEmptyString(Arg1) /\ NonEmptyString(Arg2)
    /\ normalize_hebrew(Arg1) # normalize_hebrew(Arg2)

(* sim = 1 - distance / max_len of the two normalized forms.               *)
Sim ==
    LET n1 == normalize_hebrew(Arg1)
        n2 == normalize_hebrew(Arg2)
        max_len == Max(Len(n1), Len(n2))
    IN  Rat(max_len - EditDistance(n1, n2), max_len)

(* The forms after the collapse of doubled vowel letters are equal and     *)
(* non-empty.                                                              *)
CollapsedEqual ==
    LET c1 == remove_matres_lectionis(normalize_hebrew(Arg1))
        c2 == remove_matres_lectionis(normalize_hebrew(Arg2))
    IN  c1 = c2 /\ c1 # <<>>

(* C21: with fuzzy enabled and differing normalized forms, a similarity of *)
(* 0.9 or more gives sim * 0.7 even when the collapsed forms are equal; a  *)
(* similarity below 0.9 gives exactly 0.85 when the collapsed forms are    *)
(* equal and non-empty, and sim * 0.7 otherwise.                           *)
C21_TierOrdering ==
    FuzzyCase =>
        IF RatLe(Rat(9, 10), Sim) THEN score = RatMul(Sim, Rat(7, 10))
        ELSE IF CollapsedEqual THEN score = Rat(85, 100)
        ELSE score = RatMul(Sim, Rat(7, 10))

(* Each of the three cases happened: the first one with equal collapsed    *)
(* forms.                                                                  *)
C21_Witness ==
    /\ FuzzyCase
    /\ RatLe(Rat(9, 10), Sim)
    /\ CollapsedEqual
    /\ score = RatMul(Sim, Rat(7, 10))

(* C22: a fuzzy match never outranks a consonantal match: when the         *)
(* normalized forms differ the score is strictly below 0.9, and a score    *)
(* of the edit-distance fallback (0.7 * similarity) is strictly below 0.7. *)
C22_FuzzyBelowConsonantal ==
    /\ Compared /\ normalize_hebrew(Arg1) # normalize_hebrew(Arg2) =>
           RatLt(score, Rat(9, 10))
    /\ FuzzyCase /\ score = RatMul(Sim, Rat(7, 10)) =>
           /\ RatLt(score, Rat(7, 10))
           /\ RatLt(score, Rat(85, 100))

(* The fallback scored a pair of long words that differ by one letter:     *)
(* the highest similarity the inputs reach.                                *)
C22_Witness ==
    /\ FuzzyCase
    /\ Len(normalize_hebrew(Arg1)) > 10
    /\ Sim = Rat(10, 11)
    /\ score = Rat(7, 11)

-----------------------------------------------------------------------------
(* The collapse of doubled vowel letters.                                  *)

(* The length of the run of the first character of s at the start of s.    *)
RECURSIVE RunLength(_)
RunLength(s) ==
    IF s = <<>> THEN 0
    ELSE IF Len(s) = 1 \/ s[2] # s[1] THEN 1
    ELSE 1 + RunLength(Tail(s))

(* What is left of a maximal run of n characters c: a run of exactly two   *)
(* vav or yod becomes one letter; with pairwise set, every adjacent pair   *)
(* of a longer run, taken from the left, becomes one letter as well.       *)
RunLeft(c, n, pairwise) ==
    IF c \notin {VAV, YOD} THEN n
    ELSE IF pairwise THEN (n + 1) \div 2
    ELSE IF n = 2 THEN 1
    ELSE n

(* s with each of its maximal runs replaced by what RunLeft leaves of it.  *)
RECURSIVE RunsCollapsed(_, _)
RunsCollapsed(s, pairwise) ==
    IF s = <<>> THEN <<>>
    ELSE [i \in 1 .. RunLeft(s[1], RunLength(s), pairwise) |-> s[1]]
             \o RunsCollapsed(SubSeq(s, RunLength(s) + 1, Len(s)), pairwise)

(* The longest run of vav or of yod in s.                                  *)
LongestVowelRun(s) ==
    LET runs_at == {RunLength(SubSeq(s, i, Len(s))) :
                       i \in {j \in 1 .. Len(s) : s[j] \in {VAV, YOD}}}
    IN  IF runs_at = {} THEN 0 ELSE CHOOSE n \in runs_at : \A m \in runs_at : m <= n

(* C23 as stated: a run of exactly two vav or two yod becomes one letter   *)
(* and everything else, runs of any other length included, is unchanged.   *)
C23_OnlyRunsOfTwo ==
    pc = "collapsed" =>
        /\ norm1_no_ml = RunsCollapsed(norm1, FALSE)
        /\ norm2_no_ml = RunsCollapsed(norm2, FALSE)

(* C23: a run of exactly two vav or two yod becomes one letter, a longer   *)
(* run of n becomes a run of (n + 1) div 2 (each adjacent pair from the    *)
(* left becomes one letter), and single occurrences and all other letters  *)
(* are unchanged.                                                          *)
C23_PairsCollapsed ==
    pc = "collapsed" =>
        /\ norm1_no_ml = RunsCollapsed(norm1, TRUE)
        /\ norm2_no_ml = RunsCollapsed(norm2, TRUE)

(* A text with a run of three vowel letters and another letter was         *)
(* collapsed, and so was one with a doubled yod.                           *)
C23_Witness ==
    /\ pc = "collapsed"
    /\ LongestVowelRun(norm1) = 3
    /\ Len(norm1) = 4
    /\ norm2 = <<DALET, YOD, YOD, DALET>>
    /\ norm2_no_ml = <<DALET, YOD, DALET>>

-----------------------------------------------------------------------------
(* Words that differ in one letter.                                        *)

(* a and b are consonant-only words of the same length that differ at      *)
(* exactly one position.                                                   *)
OneLetterApart(a, b) ==
    /\ NonEmptyString(a) /\ NonEmptyString(b)
    /\ Range(a) \subseteq HebrewLetters /\ Range(b) \subseteq HebrewLetters
    /\ Len(a) = Len(b)
    /\ Cardinality({i \in 1 .. Len(a) : a[i] # b[i]}) = 1

(* C24 as stated: two consonant-only words of the same length that differ  *)
(* in exactly one letter score strictly between 0.0 and 0.9 with fuzzy     *)
(* matching enabled.                                                       *)
C24_OneLetterFuzzy ==
    Compared /\ fuzzy /\ OneLetterApart(Arg1, Arg2) =>
        RatLt(Rat(0, 1), score) /\ RatLt(score, Rat(9, 10))

(* C24: the same, for words of two or more letters whose differing letters *)
(* are not a final form and its base letter.                               *)
C24_OneLetterFuzzyOfLongerWords ==
    /\ Compared /\ fuzzy /\ OneLetterApart(Arg1, Arg2)
    /\ Len(Arg1) >= 2
    /\ \A i \in 1 .. Len(Arg1) : Arg1[i] # Arg2[i] => BaseLetter(Arg1[i]) # BaseLetter(Arg2[i])
    => RatLt(Rat(0, 1), score) /\ RatLt(score, Rat(9, 10))

(* Two words of two letters that differ in the second one were compared.   *)
C24_Witness ==
    /\ Compared /\ fuzzy /\ OneLetterApart(Arg1, Arg2)
    /\ Len(Arg1) = 2
    /\ Arg1[1] = Arg2[1]
    /\ BaseLetter(Arg1[2]) # BaseLetter(Arg2[2])
    /\ score = Rat(35, 100)

-----------------------------------------------------------------------------
(* The candidate lists of find_bhsa_matches, as the mapping records them.  *)

(* The list find_bhsa_matches returned for the i-th entry of the mapping,  *)
(* and the Strong's entry it was returned for.                             *)
MatchesAt(i) == mapping[i][2].bhsa_matches

EntryAt(i) == Lookup(strongs_data, mapping[i][1])

(* No field of the entry holds a Hebrew letter.                            *)
NoHebrewLemma(entry) ==
    \A k \in 1 .. Len(AltFields) : Skeleton(EntryGet(entry, AltFields[k])) = <<>>

(* C25: the list find_bhsa_matches returns is ranked: every candidate has  *)
(* a score of 0.7 or more, the scores do not increase along the list, the  *)
(* list has at most 10 candidates, and an entry with no Hebrew lemma gets  *)
(* the empty list.                                                         *)
C25_RankedList ==
    \A i \in 1 .. Len(mapping) :
        /\ \A j \in 1 .. Len(MatchesAt(i)) : RatLe(Rat(7, 10), MatchesAt(i)[j].score)
        /\ \A j \in 1 .. Len(MatchesAt(i)) - 1 :
               RatLe(MatchesAt(i)[j + 1].score, MatchesAt(i)[j].score)
        /\ Len(MatchesAt(i)) <= 10
        /\ NoHebrewLemma(EntryAt(i)) => MatchesAt(i) = <<>>

(* Eleven lexemes matched an entry, ten were returned, and an entry with   *)
(* no Hebrew lemma was processed with a corpus loaded.                     *)
C25_Witness ==
    /\ Len(bhsa_lexemes) = 11
    /\ \E i \in 1 .. Len(mapping) : Len(MatchesAt(i)) = 10
    /\ \E i \in 1 .. Len(mapping) : NoHebrewLemma(EntryAt(i)) /\ MatchesAt(i) = <<>>

(* The normalized form find_bhsa_matches looked up for the i-th entry.     *)
RefForm(i) == extract_strongs_hebrew(EntryAt(i))

(* The nodes of the corpus forms with the normalized form h, and of those  *)
(* the scan scores for h (normalized length within 2 of the length of h)   *)
(* with a score of 0.7 or more.                                            *)
ExactNodes(h) ==
    {bhsa_lexemes[k].node : k \in {j \in 1 .. Len(bhsa_lexemes) :
                                      bhsa_lexemes[j].normalized = h}}

ScanNodes(h) ==
    {bhsa_lexemes[k].node : k \in {j \in 1 .. Len(bhsa_lexemes) :
        /\ Abs(Len(bhsa_lexemes[j].normalized) - Len(h)) <= 2
        /\ RatLe(Rat(7, 10), compare_hebrew(h, bhsa_lexemes[j].normalized, TRUE))}}

(* The corpus forms outside the scan that would have scored 0.7 or more.   *)
FarNodes(h) ==
    {bhsa_lexemes[k].node : k \in {j \in 1 .. Len(bhsa_lexemes) :
        /\ Abs(Len(bhsa_lexemes[j].normalized) - Len(h)) > 2
        /\ RatLe(Rat(7, 10), compare_hebrew(h, bhsa_lexemes[j].normalized, TRUE))}}

ReturnedNodes(i) == {MatchesAt(i)[j].node : j \in 1 .. Len(MatchesAt(i))}

(* C26: when the indexed lookup yields a match the scan does not run and   *)
(* every candidate returned has the reference's normalized form; when it   *)
(* yields none, the candidates are those of the corpus forms whose         *)
(* normalized length is within 2 of the reference's that score 0.7 or      *)
(* more, up to ten of them.                                                *)
C26_FallbackOnlyWithoutExactMatch ==
    \A i \in 1 .. Len(mapping) :
        RefForm(i) # <<>> =>
            IF ExactNodes(RefForm(i)) # {}
            THEN ReturnedNodes(i) \subseteq ExactNodes(RefForm(i))
            ELSE /\ ReturnedNodes(i) \subseteq ScanNodes(RefForm(i))
                 /\ Len(MatchesAt(i)) = Min(10, Cardinality(ScanNodes(RefForm(i))))

(* The scan ran for an entry and returned a candidate, and left out a form *)
(* three letters longer that compare_hebrew scores 0.85.                   *)
C26_Witness ==
    \E i \in 1 .. Len(mapping) :
        /\ ExactNodes(RefForm(i)) = {}
        /\ ReturnedNodes(i) # {}
        /\ FarNodes(RefForm(i)) # {}

-----------------------------------------------------------------------------
(* The coverage pass.                                                      *)

(* The mapping of step 1, before the pass: the reverse of the matches of   *)
(* strongs_to_bhsa.json.                                                   *)
PrimaryMapping == ReverseMapping(strongs_to_bhsa_json.data, 1, <<>>)

(* The score of a normalized corpus form against the k-th reference entry. *)
ScoreAgainst(normalized, k) ==
    compare_hebrew(normalized, strongs_to_bhsa_json.data[k][2].strongs_normalized, TRUE)

(* The first reference entry, in dictionary order, of maximal score.       *)
BestEntry(normalized) ==
    CHOOSE k \in DOMAIN strongs_to_bhsa_json.data :
        /\ \A m \in DOMAIN strongs_to_bhsa_json.data :
               RatLe(ScoreAgainst(normalized, m), ScoreAgainst(normalized, k))
        /\ \A m \in 1 .. k - 1 :
               RatLt(ScoreAgainst(normalized, m), ScoreAgainst(normalized, k))

(* The i-th corpus form has the reference entry of maximal score, with the *)
(* tag of that score.                                                      *)
HasBestEntry(i) ==
    /\ HasKey(bhsa_to_strongs, all_bhsa[i][1])
    /\ LET assigned == Lookup(bhsa_to_strongs, all_bhsa[i][1])
           best     == BestEntry(all_bhsa[i][2].normalized)
           sc       == ScoreAgainst(all_bhsa[i][2].normalized, best)
       IN  /\ assigned.strongs = strongs_to_bhsa_json.data[best][1]
           /\ assigned.score = Round3(sc)
           /\ assigned.method = IF RatLt(sc, Rat(9, 10)) THEN "fuzzy_match"
                                 ELSE "consonantal_match"

(* The i-th corpus form, matched in step 1, has its entry of step 1.       *)
KeepsPrimaryEntry(i) ==
    /\ HasKey(bhsa_to_strongs, all_bhsa[i][1])
    /\ Lookup(bhsa_to_strongs, all_bhsa[i][1]) = Lookup(PrimaryMapping, all_bhsa[i][1])

(* C27: after the coverage pass every corpus form that the primary mapping *)
(* had not matched has the reference entry of maximal compare_hebrew score *)
(* (the first one in dictionary order on ties), tagged fuzzy_match below   *)
(* 0.9 and consonantal_match otherwise, and every form the primary mapping *)
(* had matched has its entry unchanged.                                    *)
C27_CoverageAssignsBest ==
    pc = "coverage_done" /\ strongs_to_bhsa_json.data # <<>> =>
        \A i \in DOMAIN all_bhsa :
            IF HasKey(PrimaryMapping, all_bhsa[i][1]) THEN KeepsPrimaryEntry(i)
            ELSE HasBestEntry(i)

-----------------------------------------------------------------------------
(* The statistics of the MappingBuilder.                                   *)

(* C28: after the k entries build_mapping has processed so far on a new    *)
(* builder, matched + unmatched is k, the three confidence counts add up   *)
(* to matched, ambiguous is at most matched, and an entry of the mapping   *)
(* has confidence none exactly when its match_count is 0; once the loop    *)
(* has run to its end (the outputs are written), matched + unmatched,      *)
(* total_strongs and the number of mapping entries are equal.              *)
C28_StatisticsInvariant ==
    /\ stats.matched + stats.unmatched = Len(mapping)
    /\ stats.high_confidence + stats.medium_confidence + stats.low_confidence
           = stats.matched
    /\ stats.ambiguous <= stats.matched
    /\ \A i \in 1 .. Len(mapping) :
           mapping[i][2].confidence = "none" <=> mapping[i][2].match_count = 0
    /\ strongs_to_bhsa_json.exists =>
           /\ stats.matched + stats.unmatched = stats.total_strongs
           /\ stats.total_strongs = Len(mapping)

(* A run went to its end with a matched entry that has several candidates  *)
(* and an unmatched entry.                                                 *)
C28_Witness ==
    /\ strongs_to_bhsa_json.exists
    /\ stats.total_strongs = 2
    /\ stats.matched = 1 /\ stats.ambiguous = 1
    /\ stats.unmatched = 1

-----------------------------------------------------------------------------
(* The scores of the candidates.                                           *)

(* C29: every candidate find_bhsa_matches returns has score exactly 1.0 or *)
(* exactly 0.85, no entry of the mapping has confidence low, and           *)
(* low_confidence stays 0.                                                 *)
C29_NoLowConfidence ==
    /\ \A i \in 1 .. Len(mapping) :
           /\ \A j \in 1 .. Len(MatchesAt(i)) :
                  \/ /\ MatchesAt(i)[j].score = Rat(1, 1)
                     /\ MatchesAt(i)[j].node \in ExactNodes(RefForm(i))
                  \/ MatchesAt(i)[j].score = Rat(85, 100) /\ ExactNodes(RefForm(i)) = {}
           /\ mapping[i][2].confidence # "low"
    /\ stats.low_confidence = 0

(* An entry got a candidate of the fallback scan, and with it confidence   *)
(* medium.                                                                 *)
C29_Witness ==
    /\ \E i \in 1 .. Len(mapping) :
           /\ MatchesAt(i) # <<>>
           /\ MatchesAt(i)[1].score = Rat(85, 100)
           /\ mapping[i][2].confidence = "medium"
    /\ stats.medium_confidence = 1
    /\ stats.matched = 1

-----------------------------------------------------------------------------
(* Reruns of apply_manual_corrections.                                     *)

(* A step that is a run of apply_manual_corrections saving the mapping.    *)
CorrectionRun ==
    /\ runs'["apply_corrections"] = runs["apply_corrections"] + 1
    /\ exit_status'["apply_corrections"] = 0

(* The keys of the override table.                                         *)
OverrideKeys == {MANUAL_CORRECTIONS[k][1] : k \in DOMAIN MANUAL_CORRECTIONS}

(* C30: apply_manual_corrections is idempotent on the persisted mapping: a *)
(* second run on the output of the first leaves every entry unchanged      *)
(* (target, score, method and previous_match), and every run leaves the    *)
(* set of keys and the entries of the keys outside the override table      *)
(* unchanged.                                                              *)
C30_CorrectionsIdempotent ==
    [][CorrectionRun =>
          /\ Keys(bhsa_to_strongs_complete_json'.data)
                 = Keys(bhsa_to_strongs_complete_json.data)
          /\ \A i \in DOMAIN bhsa_to_strongs_complete_json.data :
                 bhsa_to_strongs_complete_json.data[i][1] \notin OverrideKeys =>
                     bhsa_to_strongs_complete_json'.data[i]
                         = bhsa_to_strongs_complete_json.data[i]
          /\ runs["apply_corrections"] >= 1 /\ exit_status["apply_corrections"] = 0 =>
                 bhsa_to_strongs_complete_json'.data = bhsa_to_strongs_complete_json.data
      ]_vars

====
